---- MODULE Spec2Model ----
(***************************************************************************)
(* A model of the AIMP negotiation hub: the protocol data model            *)
(* (lib/protocol.py), the pending-email store (lib/session_store.py), the  *)
(* round processors (handlers/session_handler.py, handlers/room_handler.py)*)
(* and the message handlers of the agent (agent.py).                       *)
(***************************************************************************)
EXTENDS Integers, Sequences, FiniteSets, TLC

\* ------------------------------------------------------------------------
\* Addresses, options and bounds
\* ------------------------------------------------------------------------
Hub == "hub"
Owner == "own"
Alice == "a"
Bob == "b"
Stranger == "x"
None == "none"
Opts == {"o1", "o2"}

MAX_ROUNDS == 5

\* the number of process_round invocations a run of SpecProtocol may make
MaxProc == 6
\* the number of direct protocol calls a run of SpecProtocol may make
MaxOps == 1

\* ------------------------------------------------------------------------
\* State
\* ------------------------------------------------------------------------
VARIABLES
    session,    \* the Session as stored (sessions table)
    outbox,     \* the messages sent through the transport, in order
    nproc,      \* the number of _process_session_round calls made so far
    nops,       \* the number of direct protocol calls made so far
    room,       \* the Room as stored (rooms table)
    now,        \* the clock, time.time()
    nmsg,       \* the number of inbound messages the poll loop has handled
    arrived,    \* the senders of the session messages handled so far
    pending,    \* the pending_emails table, in order of insertion
    calls,      \* the row ids handed to process_round and to mark_processed, in order
    notify_mode, \* the mode the agent was started with: "email" or "stdout"
    tick,       \* the emails one poll fetched and how far the poll has got with them
    room_sender, \* parsed.sender of the email last handed to a room handler
    registry    \* the hub's identity tables: members, invite codes, throttle, mail sent

Range(s) == {s[i] : i \in DOMAIN s}
Last(q) == q[Len(q)]

\* ------------------------------------------------------------------------
\* lib/protocol.py : ProposalItem
\* ------------------------------------------------------------------------
\* ProposalItem(options=[], votes={p: None for p in participants})
ProposalItem(participants) ==
    [options |-> <<>>, votes |-> [p \in Range(participants) |-> None]]

\* ProposalItem.add_option
item_add_option(p, option) ==
    IF option \in Range(p.options) THEN p
    ELSE [p EXCEPT !.options = Append(@, option)]

\* ProposalItem.check_consensus
item_check_consensus(p) ==
    LET voters == DOMAIN p.votes
        voted  == {a \in voters : p.votes[a] # None}
        vals   == {p.votes[a] : a \in voted}
    IN  IF voted = {} THEN None
        ELSE IF Cardinality(voted) = Cardinality(voters) /\ Cardinality(vals) = 1
             THEN CHOOSE v \in vals : TRUE
             ELSE None

\* ------------------------------------------------------------------------
\* lib/protocol.py : AIMPSession
\* ------------------------------------------------------------------------
AIMPSession(participants, initiator) ==
    [participants      |-> participants,
     initiator         |-> IF initiator # "" THEN initiator
                           ELSE IF participants # <<>> THEN participants[1] ELSE "",
     version           |-> 0,
     proposals         |-> [i \in {"time", "location"} |-> ProposalItem(participants)],
     history           |-> <<>>,
     status            |-> "negotiating",
     current_round     |-> 1,
     round_respondents |-> <<>>]

bump_version(s) == [s EXCEPT !.version = @ + 1]

ensure_participant(s, email) ==
    LET ps == IF email \in Range(s.participants) THEN s.participants
              ELSE Append(s.participants, email)
    IN  [s EXCEPT !.participants = ps,
                  !.proposals = [i \in DOMAIN s.proposals |->
                      IF email \in DOMAIN s.proposals[i].votes THEN s.proposals[i]
                      ELSE [s.proposals[i] EXCEPT !.votes = @ @@ (email :> None)]]]

add_option(s, item, option) ==
    LET ps == IF item \in DOMAIN s.proposals THEN s.proposals
              ELSE s.proposals @@ (item :> ProposalItem(s.participants))
    IN  [s EXCEPT !.proposals = [ps EXCEPT ![item] = item_add_option(@, option)]]

apply_vote_unchecked(s, voter, item, choice) ==
    LET s1 == ensure_participant(s, voter)
    IN  IF item \notin DOMAIN s1.proposals THEN [err |-> "KeyError", s |-> s1]
        ELSE [err |-> "ok",
              s |-> [s1 EXCEPT !.proposals[item].votes[voter] = choice]]

\* a vote that withdraws the voter's votes on the other agenda items
apply_vote_single_item(s, voter, item, choice) ==
    LET s1 == ensure_participant(s, voter)
    IN  IF item \notin DOMAIN s1.proposals THEN [err |-> "KeyError", s |-> s1]
        ELSE IF choice \notin Range(s1.proposals[item].options)
             THEN [err |-> "ValueError", s |-> s1]
             ELSE [err |-> "ok",
                   s |-> [s1 EXCEPT !.proposals =
                             [i \in DOMAIN @ |->
                                 [@[i] EXCEPT !.votes[voter] =
                                     IF i = item THEN choice ELSE None]]]]

\* a refused vote that takes the voter's other votes with it
apply_vote_dropping_voter(s, voter, item, choice) ==
    LET s1 == ensure_participant(s, voter)
    IN  IF item \notin DOMAIN s1.proposals THEN [err |-> "KeyError", s |-> s1]
        ELSE IF choice \notin Range(s1.proposals[item].options)
             THEN [err |-> "ValueError",
                   s |-> [s1 EXCEPT !.proposals =
                             [i \in DOMAIN @ |-> [@[i] EXCEPT !.votes[voter] = None]]]]
             ELSE [err |-> "ok",
                   s |-> [s1 EXCEPT !.proposals[item].votes[voter] = choice]]

\* apply_vote returns the exception it raised (or "ok") beside the session as the
\* call left it: ensure_participant has acted before either exception is raised.
apply_vote(s, voter, item, choice) ==
    LET s1 == ensure_participant(s, voter)
    IN  IF item \notin DOMAIN s1.proposals THEN [err |-> "KeyError", s |-> s1]
        ELSE IF choice \notin Range(s1.proposals[item].options)
             THEN [err |-> "ValueError", s |-> s1]
             ELSE [err |-> "ok",
                   s |-> [s1 EXCEPT !.proposals[item].votes[voter] = choice]]

\* apply_votes: votes is the sequence of <<item, choice>> pairs of the dict; the
\* first exception ends the loop.
RECURSIVE apply_votes_loop(_, _, _)
apply_votes_loop(s, voter, votes) ==
    IF votes = <<>> THEN [err |-> "ok", s |-> s]
    ELSE IF votes[1][2] = None THEN apply_votes_loop(s, voter, Tail(votes))
    ELSE LET r == apply_vote(s, voter, votes[1][1], votes[1][2])
         IN  IF r.err # "ok" THEN r
             ELSE apply_votes_loop(r.s, voter, Tail(votes))

apply_votes(s, voter, votes) ==
    apply_votes_loop(ensure_participant(s, voter), voter, votes)

check_consensus(s) ==
    [i \in DOMAIN s.proposals |-> item_check_consensus(s.proposals[i])]

is_fully_resolved(s) ==
    \A i \in DOMAIN s.proposals : check_consensus(s)[i] # None

round_count(s) == Len(s.history)

is_stalled_strict(s) == round_count(s) > MAX_ROUNDS
is_stalled(s) == round_count(s) >= MAX_ROUNDS

record_round_reply(s, from_email) ==
    IF from_email \in Range(s.round_respondents) THEN s
    ELSE [s EXCEPT !.round_respondents = Append(@, from_email)]

is_round_complete_initiator_always(s) ==
    LET expected == s.participants
    IN  expected # <<>> /\ \A i \in DOMAIN expected :
                               expected[i] \in Range(s.round_respondents)

is_round_complete(s) ==
    LET expected == IF s.current_round = 1
                    THEN SelectSeq(s.participants, LAMBDA p : p # s.initiator)
                    ELSE s.participants
    IN  expected # <<>> /\ \A i \in DOMAIN expected :
                               expected[i] \in Range(s.round_respondents)

advance_round(s) ==
    [s EXCEPT !.current_round = @ + 1, !.round_respondents = <<>>]

HistoryEntry(version, from_agent, action, summary) ==
    [version |-> version, from_agent |-> from_agent, action |-> action, summary |-> summary]

add_history(s, from_agent, action, summary) ==
    [s EXCEPT !.history = Append(@, HistoryEntry(s.version, from_agent, action, summary))]

\* ------------------------------------------------------------------------
\* Inbound messages.  A message with a protocol attachment carries
\* proposals: a sequence of [item, options, votes]; a free-text message
\* carries the result the LLM gives for its body: the votes as a sequence
\* of <<item, choice>> pairs, or the failure of the call.
\* ------------------------------------------------------------------------
Templates == {"agree", "time2", "unlisted"}

\* the proposals of a protocol attachment sent by `from`
ProtoProposals(tpl, from) ==
    CASE tpl = "agree" ->
            <<[item |-> "time", options |-> <<"o1">>, votes |-> (from :> "o1")],
              [item |-> "location", options |-> <<"o1">>, votes |-> (from :> "o1")]>>
      [] tpl = "time2" ->
            <<[item |-> "time", options |-> <<"o1", "o2">>,
               votes |-> (from :> "o2" @@ Hub :> "o2")]>>
      [] OTHER ->
            <<[item |-> "time", options |-> <<>>, votes |-> (from :> "o2")],
              [item |-> "budget", options |-> <<>>, votes |-> (from :> "o1")]>>

\* what the oracle reads in a free-text body
HumanVotes(tpl) ==
    CASE tpl = "agree" -> << <<"time", "o1">>, <<"location", "o1">> >>
      [] tpl = "time2" -> << <<"time", "o2">> >>
      [] OTHER -> <<>>

\* what call_llm and extract_json give for a free-text body: the JSON the
\* model answered, or the exception of a failed call or an unreadable answer
LLMResult(tpl) == [raised |-> FALSE, action |-> "counter", votes |-> HumanVotes(tpl)]
LLMFailure == [raised |-> TRUE, action |-> "", votes |-> <<>>]

\* Negotiator.parse_human_reply: a failure is answered with escalate and no
\* votes, an answer with its action and its votes that are not null
parse_human_reply_trusting(result) ==
    [action |-> result.action, votes |-> <<<<"time", "o1">>>>]

parse_human_reply(result) ==
    IF result.raised THEN [action |-> "escalate", votes |-> <<>>]
    ELSE [action |-> result.action,
          votes |-> SelectSeq(result.votes, LAMBDA v : v[2] # None)]

\* the content of an inbound message from `from`; the body of a free-text
\* message is known by what the oracle will make of it
Msg(from, has_proto, tpl) ==
    [from_addr |-> from, has_proto |-> has_proto,
     proposals |-> IF has_proto THEN ProtoProposals(tpl, from) ELSE <<>>,
     body      |-> IF has_proto THEN <<>>
                   ELSE IF tpl = "llm_error" THEN LLMFailure ELSE LLMResult(tpl)]

\* ------------------------------------------------------------------------
\* handlers/session_handler.py : round processing
\* ------------------------------------------------------------------------
RECURSIVE add_options_loop(_, _, _)
add_options_loop(s, item, opts) ==
    IF opts = <<>> THEN s
    ELSE add_options_loop(add_option(s, item, opts[1]), item, Tail(opts))

\* folds in the vote the attachment records for every participant
RECURSIVE apply_recorded_votes(_, _, _, _)
apply_recorded_votes(s, item, votes, voters) ==
    IF voters = {} THEN s
    ELSE LET v == CHOOSE x \in voters : TRUE
         IN  apply_recorded_votes(
                 IF votes[v] = None THEN s ELSE apply_vote(s, v, item, votes[v]).s,
                 item, votes, voters \ {v})

apply_item_from_protocol_every_vote(s, item_data, from_addr) ==
    apply_recorded_votes(add_options_loop(s, item_data.item, item_data.options),
                         item_data.item, item_data.votes, DOMAIN item_data.votes)

\* one item of the attachment: merge its options, then the sender's own vote
\* (an exception of apply_vote is swallowed)
apply_item_from_protocol(s, item_data, from_addr) ==
    LET s1 == add_options_loop(s, item_data.item, item_data.options)
        voter_choice == IF from_addr \in DOMAIN item_data.votes
                        THEN item_data.votes[from_addr] ELSE None
    IN  IF voter_choice = None THEN s1
        ELSE apply_vote(s1, from_addr, item_data.item, voter_choice).s

RECURSIVE apply_votes_from_protocol(_, _, _)
apply_votes_from_protocol(s, proposals, from_addr) ==
    IF proposals = <<>> THEN s
    ELSE apply_votes_from_protocol(
             apply_item_from_protocol(s, proposals[1], from_addr),
             Tail(proposals), from_addr)

\* the free-text branch of _process_session_round: a refused vote adds the
\* choice as an option and votes again
apply_human_vote(s, from_addr, item, choice) ==
    LET r == apply_vote(s, from_addr, item, choice)
    IN  IF r.err = "ok" THEN r.s
        ELSE apply_vote(add_option(r.s, item, choice), from_addr, item, choice).s

RECURSIVE apply_human_votes(_, _, _)
apply_human_votes(s, from_addr, votes) ==
    IF votes = <<>> THEN s
    ELSE apply_human_votes(
             IF votes[1][2] = None THEN s
             ELSE apply_human_vote(s, from_addr, votes[1][1], votes[1][2]),
             from_addr, Tail(votes))

\* the body of the loop over the pending rows
fold_pending_row(s, e) ==
    IF e.has_proto
    THEN apply_votes_from_protocol(s, e.proposals, e.from_addr)
    ELSE apply_human_votes(s, e.from_addr, parse_human_reply(e.body).votes)

RECURSIVE fold_pending(_, _)
fold_pending(s, rows) ==
    IF rows = <<>> THEN s
    ELSE fold_pending(fold_pending_row(s, rows[1]), Tail(rows))

send_session_reply_first_only(s, kind) ==
    LET recipients == SelectSeq(s.participants, LAMBDA p : p # Hub)
    IN  [kind |-> kind,
         to |-> IF recipients = <<>> THEN {} ELSE {recipients[1]},
         version |-> s.version]

\* _send_session_reply: one AIMP email addressed to every participant but
\* the agent itself, carrying the session's version
send_session_reply(s, kind) ==
    [kind |-> kind,
     to |-> {p \in Range(s.participants) : p # Hub},
     version |-> s.version]

process_session_round_stall_first(s, rows) ==
    LET s1 == advance_round(fold_pending(s, rows))
    IN  IF is_stalled(s1)
        THEN LET s2 == [s1 EXCEPT !.status = "escalated"]
             IN  [s |-> s2, sent |-> send_session_reply(s2, "escalate"),
                  event |-> "escalation"]
        ELSE IF is_fully_resolved(s1)
        THEN LET s2 == add_history(bump_version([s1 EXCEPT !.status = "confirmed"]),
                                   Hub, "confirm", 0)
             IN  [s |-> s2, sent |-> send_session_reply(s2, "confirm"),
                  event |-> "consensus"]
        ELSE LET s2 == add_history(bump_version(s1), Hub, "counter", s1.current_round)
             IN  [s |-> s2, sent |-> send_session_reply(s2, "counter"),
                  event |-> "reply_sent"]

\* _process_session_round: the session it saves and the message it sends
process_session_round(s, rows) ==
    LET s1 == advance_round(fold_pending(s, rows))
    IN  IF is_fully_resolved(s1)
        THEN LET s2 == add_history(bump_version([s1 EXCEPT !.status = "confirmed"]),
                                   Hub, "confirm", 0)
             IN  [s |-> s2, sent |-> send_session_reply(s2, "confirm"),
                  event |-> "consensus"]
        ELSE IF is_stalled(s1)
        THEN LET s2 == [s1 EXCEPT !.status = "escalated"]
             IN  [s |-> s2, sent |-> send_session_reply(s2, "escalate"),
                  event |-> "escalation"]
        ELSE LET s2 == add_history(bump_version(s1), Hub, "counter", s1.current_round)
             IN  [s |-> s2, sent |-> send_session_reply(s2, "counter"),
                  event |-> "reply_sent"]

\* _initiate_internal_meeting: the session the hub saves
initiate_internal_meeting(member_emails) ==
    add_history(bump_version(AIMPSession(<<Hub>> \o member_emails, Hub)),
                Hub, "propose", 0)

\* ------------------------------------------------------------------------
\* agent.py : initiate_meeting.  The agent lists itself first, adds its
\* preferred times and locations as options and votes for the first of each.
\* ------------------------------------------------------------------------
initiate_meeting(others, preferred_times, preferred_locations) ==
    LET s0 == AIMPSession(<<Hub>> \o others, Hub)
        s1 == add_options_loop(s0, "time", preferred_times)
        s2 == add_options_loop(s1, "location", preferred_locations)
        s3 == IF preferred_times # <<>>
              THEN apply_vote(s2, Hub, "time", preferred_times[1]).s ELSE s2
        s4 == IF preferred_locations # <<>>
              THEN apply_vote(s3, Hub, "location", preferred_locations[1]).s ELSE s3
    IN  add_history(bump_version(s4), Hub, "propose", 0)

\* ------------------------------------------------------------------------
\* lib/protocol.py : AIMPRoom
\* ------------------------------------------------------------------------
AIMPRoom(participants, initiator, deadline) ==
    [participants      |-> participants,
     initiator         |-> initiator,
     deadline          |-> deadline,
     artifacts         |-> <<>>,
     transcript        |-> <<>>,
     status            |-> "open",
     accepted_by       |-> <<>>,
     current_round     |-> 1,
     round_respondents |-> <<>>]

is_past_deadline_inclusive(r, time) == time >= r.deadline

\* time.time() > deadline
is_past_deadline(r, time) == time > r.deadline

all_accepted(r) ==
    IF r.participants = <<>> THEN FALSE
    ELSE \A i \in DOMAIN r.participants : r.participants[i] \in Range(r.accepted_by)

add_to_transcript(r, from_agent, action, summary) ==
    [r EXCEPT !.transcript =
        Append(@, HistoryEntry(Len(r.transcript) + 1, from_agent, action, summary))]

room_record_round_reply(r, from_email) ==
    IF from_email \in Range(r.round_respondents) THEN r
    ELSE [r EXCEPT !.round_respondents = Append(@, from_email)]

room_is_round_complete(r) ==
    LET expected == IF r.current_round = 1
                    THEN SelectSeq(r.participants, LAMBDA p : p # r.initiator)
                    ELSE r.participants
    IN  expected # <<>> /\ \A i \in DOMAIN expected :
                               expected[i] \in Range(r.round_respondents)

room_advance_round(r) ==
    [r EXCEPT !.current_round = @ + 1, !.round_respondents = <<>>]

\* ------------------------------------------------------------------------
\* lib/protocol.py : the wire form.  to_json writes the initiator under the
\* key "from" and adds the protocol version; from_json reads the keys back,
\* and creates an agenda item the payload lacks with an unvoted slot for every
\* listed participant.
\* ------------------------------------------------------------------------
PROTOCOL_VERSION == "AIMP/0.1"

\* ProposalItem.to_dict / from_dict
item_to_dict(p) == [options |-> p.options, votes |-> p.votes]
item_from_dict(d) == [options |-> d.options, votes |-> d.votes]

\* HistoryEntry.to_dict / from_dict
entry_to_dict(h) ==
    [version |-> h.version, from |-> h.from_agent, action |-> h.action, summary |-> h.summary]
entry_from_dict(d) ==
    [version |-> d.version, from_agent |-> d.from, action |-> d.action, summary |-> d.summary]

\* a writer that names the first participant as the initiator
to_json_first_participant(s) ==
    [protocol          |-> PROTOCOL_VERSION,
     version           |-> s.version,
     from              |-> IF s.participants # <<>> THEN s.participants[1] ELSE "",
     participants      |-> s.participants,
     proposals         |-> [i \in DOMAIN s.proposals |-> item_to_dict(s.proposals[i])],
     status            |-> s.status,
     history           |-> [i \in DOMAIN s.history |-> entry_to_dict(s.history[i])],
     current_round     |-> s.current_round,
     round_respondents |-> s.round_respondents]

\* AIMPSession.to_json
to_json(s) ==
    [protocol          |-> PROTOCOL_VERSION,
     version           |-> s.version,
     from              |-> s.initiator,
     participants      |-> s.participants,
     proposals         |-> [i \in DOMAIN s.proposals |-> item_to_dict(s.proposals[i])],
     status            |-> s.status,
     history           |-> [i \in DOMAIN s.history |-> entry_to_dict(s.history[i])],
     current_round     |-> s.current_round,
     round_respondents |-> s.round_respondents]

\* AIMPSession.from_json
from_json(data) ==
    [participants      |-> data.participants,
     initiator         |-> data.from,
     version           |-> data.version,
     proposals         |->
        [i \in DOMAIN data.proposals \cup {"time", "location"} |->
            IF i \in DOMAIN data.proposals THEN item_from_dict(data.proposals[i])
            ELSE ProposalItem(data.participants)],
     history           |-> [i \in DOMAIN data.history |-> entry_from_dict(data.history[i])],
     status            |-> data.status,
     current_round     |-> data.current_round,
     round_respondents |-> data.round_respondents]

\* Artifact.to_dict / from_dict
artifact_to_dict(a) == [author |-> a.author, timestamp |-> a.time]
artifact_from_dict(d) == [author |-> d.author, time |-> d.timestamp]

\* AIMPRoom.to_json
room_to_json(r) ==
    [deadline          |-> r.deadline,
     participants      |-> r.participants,
     initiator         |-> r.initiator,
     artifacts         |-> [i \in DOMAIN r.artifacts |-> artifact_to_dict(r.artifacts[i])],
     transcript        |-> [i \in DOMAIN r.transcript |-> entry_to_dict(r.transcript[i])],
     status            |-> r.status,
     resolution_rules  |-> "majority",
     accepted_by       |-> r.accepted_by,
     current_round     |-> r.current_round,
     round_respondents |-> r.round_respondents]

\* AIMPRoom.from_json
room_from_json(data) ==
    [participants      |-> data.participants,
     initiator         |-> data.initiator,
     deadline          |-> data.deadline,
     artifacts         |-> [i \in DOMAIN data.artifacts |-> artifact_from_dict(data.artifacts[i])],
     transcript        |-> [i \in DOMAIN data.transcript |-> entry_from_dict(data.transcript[i])],
     status            |-> data.status,
     accepted_by       |-> data.accepted_by,
     current_round     |-> data.current_round,
     round_respondents |-> data.round_respondents]

\* ------------------------------------------------------------------------
\* agent.py : the handlers of the poll loop.  Each returns the session it
\* leaves in the store and the messages it sends, in order.
\* ------------------------------------------------------------------------
Recipients(s) == {p \in Range(s.participants) : p # Hub}

\* _send_reply
send_reply(s, action) ==
    LET s1 == add_history(bump_version(s), Hub, action, 0)
    IN  [s |-> s1,
         sent |-> <<[kind |-> action, to |-> Recipients(s1), version |-> s1.version]>>]

\* lib/output.py : emit_event writes a structured event to the output stream;
\* it is addressed to nobody
emit_event(kind, version) == [kind |-> kind, to |-> {}, version |-> version]

\* _notify_owner_confirmed
notify_owner_confirmed(s) ==
    IF notify_mode = "stdout" THEN emit_event("event_consensus", s.version)
    ELSE [kind |-> "notify_confirmed", to |-> {Owner}, version |-> s.version]

\* _send_confirm, with its closing _notify_owner_confirmed
send_confirm(s) ==
    LET s1 == add_history(bump_version([s EXCEPT !.status = "confirmed"]),
                          Hub, "confirm", 0)
    IN  [s |-> s1,
         sent |-> <<[kind |-> "confirm", to |-> Recipients(s1), version |-> s1.version],
                    notify_owner_confirmed(s1)>>]

\* _escalate_to_owner
escalate_to_owner(s) ==
    LET s1 == [s EXCEPT !.status = "escalated"]
    IN  [s |-> s1,
         sent |-> <<IF notify_mode = "stdout"
                    THEN emit_event("event_escalation", s1.version)
                    ELSE [kind |-> "escalation", to |-> {Owner}, version |-> s1.version]>>]

\* the vote loops of the two handlers: a ValueError is logged and the loop
\* goes on, a KeyError leaves the loop and the handler
RECURSIVE votes_skip_value_error(_, _, _)
votes_skip_value_error(s, voter, votes) ==
    IF votes = <<>> THEN [err |-> "ok", s |-> s]
    ELSE IF votes[1][2] = None THEN votes_skip_value_error(s, voter, Tail(votes))
    ELSE LET r == apply_vote(s, voter, votes[1][1], votes[1][2])
         IN  IF r.err = "KeyError" THEN r
             ELSE votes_skip_value_error(r.s, voter, Tail(votes))

\* the new_options loop of _handle_aimp_email
RECURSIVE add_new_options(_, _)
add_new_options(s, opts) ==
    IF opts = <<>> THEN s
    ELSE add_new_options(add_option(s, opts[1][1], opts[1][2]), Tail(opts))

\* _handle_aimp_email: data is the attached protocol JSON, dec what
\* negotiator.decide answers
handle_aimp_email(data, dec) ==
    LET s0 == from_json(data)
        last_action == IF s0.history = <<>> THEN "" ELSE Last(s0.history).action
    IN  IF last_action = "confirm" \/ s0.status = "confirmed"
        THEN [s |-> s0, sent |-> <<notify_owner_confirmed(s0)>>]
        ELSE IF is_stalled(s0) /\ last_action \notin {"confirm", "escalate"}
        THEN escalate_to_owner(s0)
        ELSE IF is_fully_resolved(s0) THEN send_confirm(s0)
        ELSE IF dec.action = "escalate" THEN escalate_to_owner(s0)
        ELSE LET r == votes_skip_value_error(s0, Hub, dec.votes)
             IN  IF r.err = "KeyError" THEN [s |-> s0, sent |-> <<>>]
                 ELSE LET s1 == add_new_options(r.s, dec.new_options)
                      IN  IF is_fully_resolved(s1) THEN send_confirm(s1)
                          ELSE send_reply(s1, dec.action)

\* _handle_human_email: stored is the session store.load returns, reply what
\* negotiator.parse_human_reply answers for the body
handle_human_email(stored, sender, reply) ==
    LET r == votes_skip_value_error(stored, sender, reply.votes)
    IN  IF r.err = "KeyError" THEN [s |-> stored, sent |-> <<>>]
        ELSE IF is_fully_resolved(r.s) THEN send_confirm(r.s)
        ELSE IF reply.action = "escalate" THEN escalate_to_owner(r.s)
        ELSE send_reply(r.s, reply.action)

\* ------------------------------------------------------------------------
\* handlers/room_handler.py
\* ------------------------------------------------------------------------
\* initiate_room: the room it saves
initiate_room(participants, initiator, deadline, initial_proposal) ==
    LET r0 == AIMPRoom(participants, initiator, deadline)
    IN  IF initial_proposal
        THEN add_to_transcript(
                 [r0 EXCEPT !.artifacts = <<[author |-> initiator, time |-> 0]>>],
                 initiator, "PROPOSE", 0)
        ELSE r0

\* room.artifacts[name] = Artifact(...): the name is made of the sender and the
\* second of arrival, so a sender's second artifact in one second replaces the first
put_artifact(r, sender, time) ==
    LET a == [author |-> sender, time |-> time]
    IN  IF a \in Range(r.artifacts) THEN r
        ELSE [r EXCEPT !.artifacts = Append(@, a)]

\* a broadcast that reaches the first participant only
ToEachParticipant_first_only(r, kind) ==
    IF r.participants = <<>> THEN <<>>
    ELSE <<[kind |-> kind, to |-> {r.participants[1]}, version |-> Len(r.transcript)]>>

\* the messages a handler sends to each participant of the room in turn
ToEachParticipant(r, kind) ==
    [i \in DOMAIN r.participants |->
        [kind |-> kind, to |-> {r.participants[i]}, version |-> Len(r.transcript)]]

\* _finalize_room that records the deadline as the trigger in every case
finalize_room_deadline_trigger(r) ==
    LET r1 == add_to_transcript([r EXCEPT !.status = "finalized"], Hub, "FINALIZED",
                                "deadline_expired")
    IN  [r |-> r1,
         sent |-> IF notify_mode = "email" THEN ToEachParticipant(r1, "minutes")
                  ELSE <<emit_event("event_room_finalized", Len(r1.transcript))>>]

\* _finalize_room: the room it saves, with the trigger as the summary of the
\* FINALIZED entry, and the minutes it sends (or the event it emits)
finalize_room(r) ==
    LET r1 == add_to_transcript([r EXCEPT !.status = "finalized"], Hub, "FINALIZED",
                                IF all_accepted(r) THEN "all_accepted"
                                ELSE "deadline_expired")
    IN  [r |-> r1,
         sent |-> IF notify_mode = "email" THEN ToEachParticipant(r1, "minutes")
                  ELSE <<emit_event("event_room_finalized", Len(r1.transcript))>>]

\* _handle_room_email: am is what room_negotiator.parse_amendment answers
handle_room_email(r, sender, am, time) ==
    IF r.status # "open" THEN [r |-> r, sent |-> <<>>]
    ELSE IF sender \notin Range(r.participants) THEN [r |-> r, sent |-> <<>>]
    ELSE LET r1 == IF am.action = "ACCEPT"
                   THEN IF sender \in Range(r.accepted_by) THEN r
                        ELSE [r EXCEPT !.accepted_by = Append(@, sender)]
                   ELSE IF am.action \in {"PROPOSE", "AMEND"} /\ am.new_content
                        THEN put_artifact(r, sender, time)
                        ELSE r
             r2 == add_to_transcript(r1, sender, am.action, 0)
         IN  IF all_accepted(r2) THEN finalize_room(r2)
             ELSE [r |-> r2,
                   sent |-> IF notify_mode = "email"
                            THEN ToEachParticipant(r2, "room_status") ELSE <<>>]

\* _handle_room_confirm
handle_room_confirm(r, sender) ==
    LET r1 == IF sender \in Range(r.accepted_by) THEN r
              ELSE [r EXCEPT !.accepted_by = Append(@, sender)]
        r2 == add_to_transcript(r1, sender, "CONFIRM", 0)
    IN  [r |-> r2,
         sent |-> IF notify_mode = "email"
                  THEN <<[kind |-> "confirm_ack", to |-> {sender},
                          version |-> Len(r2.transcript)]>>
                  ELSE <<>>]

\* _handle_room_reject that opens the room again
handle_room_reject_reopen(r, sender) ==
    LET r1 == add_to_transcript([r EXCEPT !.status = "open"], sender, "REJECT", 0)
    IN  [r |-> r1,
         sent |-> IF notify_mode = "email"
                  THEN <<[kind |-> "veto_escalation", to |-> {r1.initiator},
                          version |-> Len(r1.transcript)],
                         [kind |-> "veto_ack", to |-> {sender},
                          version |-> Len(r1.transcript)]>>
                  ELSE <<>>]

\* _handle_room_reject
handle_room_reject(r, sender) ==
    LET r1 == add_to_transcript(r, sender, "REJECT", 0)
    IN  [r |-> r1,
         sent |-> IF notify_mode = "email"
                  THEN <<[kind |-> "veto_escalation", to |-> {r1.initiator},
                          version |-> Len(r1.transcript)],
                         [kind |-> "veto_ack", to |-> {sender},
                          version |-> Len(r1.transcript)]>>
                  ELSE <<>>]

\* _apply_room_action
apply_room_action(r, sender, am, time) ==
    LET r1 == IF am.action = "ACCEPT"
              THEN IF sender \in Range(r.accepted_by) THEN r
                   ELSE [r EXCEPT !.accepted_by = Append(@, sender)]
              ELSE IF am.action \in {"PROPOSE", "AMEND"} /\ am.new_content
                   THEN put_artifact(r, sender, time)
                   ELSE r
    IN  add_to_transcript(r1, sender, am.action, 0)

\* the loop of _process_room_round over the pending rows: a row of a
\* non-participant is passed over
RECURSIVE fold_room_pending(_, _, _)
fold_room_pending(r, rows, time) ==
    IF rows = <<>> THEN r
    ELSE fold_room_pending(
             IF rows[1].from_addr \notin Range(r.participants) THEN r
             ELSE apply_room_action(r, rows[1].from_addr, rows[1].body, time),
             Tail(rows), time)

\* _process_room_round that closes the room on full acceptance only
process_room_round_accept_only(r, rows, time) ==
    LET r1 == room_advance_round(fold_room_pending(r, rows, time))
    IN  IF all_accepted(r1)
        THEN finalize_room(r1)
        ELSE LET r2 == add_to_transcript(r1, Hub, "aggregate", r1.current_round)
             IN  [r |-> r2,
                  sent |-> IF notify_mode = "email"
                           THEN ToEachParticipant(r2, "room_round") ELSE <<>>]

\* _process_room_round: the room it saves and the messages it sends
process_room_round(r, rows, time) ==
    LET r1 == room_advance_round(fold_room_pending(r, rows, time))
    IN  IF all_accepted(r1) \/ is_past_deadline(r1, time)
        THEN finalize_room(r1)
        ELSE LET r2 == add_to_transcript(r1, Hub, "aggregate", r1.current_round)
             IN  [r |-> r2,
                  sent |-> IF notify_mode = "email"
                           THEN ToEachParticipant(r2, "room_round") ELSE <<>>]

\* ------------------------------------------------------------------------
\* lib/session_store.py : the pending_emails table.  A row carries the
\* entity it is keyed by, the sender and the stored content (the attachment
\* or the body), and the processed flag; ids count up from 1.
\* ------------------------------------------------------------------------
\* received_at is time.time() at the insertion
save_pending_email(tbl, entity, from_addr, has_proto, proposals, body, time) ==
    Append(tbl, [id |-> Len(tbl) + 1, entity |-> entity, received_at |-> time,
                 from_addr |-> from_addr,
                 has_proto |-> has_proto, proposals |-> proposals, body |-> body,
                 processed |-> FALSE])

\* row put into the sorted rows behind every row that is not later than it
RECURSIVE insert_by_received_at(_, _)
insert_by_received_at(rows, row) ==
    IF rows = <<>> THEN <<row>>
    ELSE IF rows[1].received_at <= row.received_at
         THEN <<rows[1]>> \o insert_by_received_at(Tail(rows), row)
         ELSE <<row>> \o rows

\* row put into the rows behind every row that is not earlier than it
RECURSIVE insert_by_received_at_desc(_, _)
insert_by_received_at_desc(rows, row) ==
    IF rows = <<>> THEN <<row>>
    ELSE IF rows[1].received_at >= row.received_at
         THEN <<rows[1]>> \o insert_by_received_at_desc(Tail(rows), row)
         ELSE <<row>> \o rows

RECURSIVE order_by_received_at_desc(_)
order_by_received_at_desc(rows) ==
    IF rows = <<>> THEN <<>>
    ELSE insert_by_received_at_desc(
             order_by_received_at_desc(SubSeq(rows, 1, Len(rows) - 1)), Last(rows))

\* ORDER BY received_at: rows of one received_at stay in the order of the
\* table scan, that of their ids
RECURSIVE order_by_received_at(_)
order_by_received_at(rows) ==
    IF rows = <<>> THEN <<>>
    ELSE insert_by_received_at(
             order_by_received_at(SubSeq(rows, 1, Len(rows) - 1)), Last(rows))

\* a load that passes over the rows received before the present instant
load_pending_for_session_recent(tbl) ==
    order_by_received_at(
        SelectSeq(tbl, LAMBDA row : row.entity = "session" /\ ~row.processed
                                    /\ row.received_at = now))

load_pending_for_session(tbl) ==
    order_by_received_at(
        SelectSeq(tbl, LAMBDA row : row.entity = "session" /\ ~row.processed))

load_pending_for_room_all(tbl) ==
    order_by_received_at(SelectSeq(tbl, LAMBDA row : row.entity = "room"))

load_pending_for_room(tbl) ==
    order_by_received_at(
        SelectSeq(tbl, LAMBDA row : row.entity = "room" /\ ~row.processed))

mark_processed(tbl, email_id) ==
    [i \in DOMAIN tbl |->
        IF tbl[i].id = email_id THEN [tbl[i] EXCEPT !.processed = TRUE] ELSE tbl[i]]

\* ------------------------------------------------------------------------
\* State
\* ------------------------------------------------------------------------
vars == <<session, outbox, nproc, nops, room, now, nmsg, arrived, pending, calls,
          notify_mode, tick, room_sender, registry>>

\* the --notify choices of the command line
NotifyModes == {"email", "stdout"}

\* no poll under way
NoTick == [phase |-> "idle", room_emails |-> <<>>, aimp_emails |-> <<>>,
           all_emails |-> <<>>, handled |-> {}, swept |-> FALSE, due |-> FALSE,
           n |-> 0]

NoCalls == [dispatched |-> <<>>, marked |-> <<>>]

\* a hub configured with no member and no invite code, that has replied to nobody
NoRegistry == [email_to_member |-> <<>>, invite_codes |-> <<>>,
               replied_senders |-> <<>>, sent |-> <<>>]

\* the deadline a room is created with
Deadline == 1

\* the state of the hub that the calls on a bare Session leave alone
hubState == <<room, now, nmsg, arrived, pending, calls, notify_mode, tick, room_sender, registry>>

Senders == {Alice, Bob, Stranger}

\* the messages one sender can send: an attachment voting o1 on both items,
\* a free-text vote for a time not yet listed, an attachment whose votes
\* name no listed option
MsgsFrom(f) == {Msg(f, TRUE, "agree"), Msg(f, FALSE, "time2"), Msg(f, TRUE, "unlisted")}

\* the member lists a meeting is initiated with
MemberLists == {<<>>, <<Alice>>, <<Alice, Bob>>}

\* the sessions the two initiators can create
InitialSessions ==
    {initiate_internal_meeting(ms) : ms \in MemberLists}
    \cup {initiate_meeting(ms, <<"o1">>, <<"o1">>) : ms \in MemberLists}

\* ------------------------------------------------------------------------
\* Spec: the hub's poll loop (hub_agent.py, agent.py) over one session and one
\* room.  One action is the handling of one fetched email, the deadline sweep
\* that ends a poll, or the passing of time.
\* ------------------------------------------------------------------------
\* the number of inbound messages a run handles
MaxMsgs == 2
\* the last instant of the clock
MaxTime == 2

\* what negotiator.decide can answer: accept with the listed option, counter
\* with a new time, escalate (also its answer when the LLM call fails)
Decisions ==
    { [action |-> "accept", votes |-> HumanVotes("agree"), new_options |-> <<>>],
      [action |-> "counter", votes |-> HumanVotes("time2"),
       new_options |-> << <<"time", "o2">> >>],
      [action |-> "escalate", votes |-> <<>>, new_options |-> <<>>] }

\* what negotiator.parse_human_reply can answer: votes for listed options, a
\* vote for a time that may not be listed, a vote on an item that does not
\* exist, escalate without votes (also its answer when the LLM call fails)
HumanReplies ==
    { [action |-> "accept", votes |-> HumanVotes("agree")],
      [action |-> "counter", votes |-> HumanVotes("time2")],
      [action |-> "counter", votes |-> << <<"budget", "o1">> >>],
      [action |-> "escalate", votes |-> <<>>] }

\* the protocol JSON a peer attaches after adopting session s, listing o1 and
\* voting for it
PeerReply(s, f) ==
    LET s1 == add_options_loop(add_options_loop(s, "time", <<"o1">>), "location", <<"o1">>)
    IN  add_history(bump_version(apply_votes(s1, f, HumanVotes("agree")).s), f, "accept", 0)

\* a protocol JSON that lists three participants and carries the sender's vote only
PartialVotes(f) ==
    [protocol          |-> PROTOCOL_VERSION,
     participants      |-> <<Hub, Alice, Bob>>,
     from              |-> f,
     version           |-> 1,
     proposals         |-> [i \in {"time", "location"} |->
                               [options |-> <<"o1">>, votes |-> (f :> "o1")]],
     history           |-> <<entry_to_dict(HistoryEntry(1, f, "propose", 0))>>,
     status            |-> "negotiating",
     current_round     |-> 1,
     round_respondents |-> <<>>]

Attachments(f) == {to_json(PeerReply(session, f)), PartialVotes(f)}

\* what room_negotiator.parse_amendment can answer (AMEND without content is
\* also its answer when the LLM call fails)
Amendments ==
    { [action |-> "ACCEPT", new_content |-> FALSE],
      [action |-> "AMEND", new_content |-> TRUE],
      [action |-> "AMEND", new_content |-> FALSE],
      [action |-> "REJECT", new_content |-> FALSE] }

\* the rooms a member's command creates: the member first, then the contacts
InitialRooms ==
    { initiate_room(<<Alice, Bob>>, Alice, Deadline, TRUE),
      initiate_room(<<Alice>>, Alice, Deadline, FALSE) }

Init ==
    /\ session \in InitialSessions
    /\ room \in InitialRooms
    /\ outbox = <<>>
    /\ now = 0
    /\ nmsg = 0
    /\ arrived = {}
    /\ pending = <<>>
    /\ calls = NoCalls
    /\ nproc = 0
    /\ nops = 0
    /\ notify_mode \in NotifyModes
    /\ tick = NoTick
    /\ room_sender = None
    /\ registry = NoRegistry

\* AIMPAgent.poll -> handle_email -> _handle_aimp_email
HandleAimpEmail ==
    /\ nmsg < MaxMsgs
    /\ \E f \in Senders : \E data \in Attachments(f) : \E dec \in Decisions :
           LET r == handle_aimp_email(data, dec)
           IN  /\ session' = r.s
               /\ outbox' = outbox \o r.sent
               /\ arrived' = arrived \cup {f}
    /\ nmsg' = nmsg + 1
    /\ UNCHANGED <<room, now, pending, calls, nproc, nops,
                 notify_mode, tick, room_sender, registry>>

\* AIMPAgent.poll -> handle_email -> _handle_human_email, for a reply that
\* names the session
HandleHumanEmail ==
    /\ nmsg < MaxMsgs
    /\ \E f \in Senders : \E reply \in HumanReplies :
           LET r == handle_human_email(session, f, reply)
           IN  /\ session' = r.s
               /\ outbox' = outbox \o r.sent
               /\ arrived' = arrived \cup {f}
    /\ nmsg' = nmsg + 1
    /\ UNCHANGED <<room, now, pending, calls, nproc, nops,
                 notify_mode, tick, room_sender, registry>>

\* AIMPHubAgent.poll -> _handle_room_email
HandleRoomEmail ==
    /\ nmsg < MaxMsgs
    /\ \E f \in Senders : \E am \in Amendments :
           LET r == handle_room_email(room, f, am, now)
           IN  /\ room' = r.r
               /\ outbox' = outbox \o r.sent
               /\ room_sender' = f
    /\ nmsg' = nmsg + 1
    /\ UNCHANGED <<session, now, arrived, pending, calls, nproc, nops,
                 notify_mode, tick, registry>>

\* AIMPHubAgent._handle_human_email, for a reply that names the room: a
\* CONFIRM or REJECT body is a veto reply once the room is finalized, any
\* other reply falls through and finds no session
HandleRoomVeto ==
    /\ nmsg < MaxMsgs
    /\ \E f \in Senders : \E body \in {"CONFIRM", "REJECT"} :
           LET r == IF room.status = "finalized"
                    THEN IF body = "CONFIRM" THEN handle_room_confirm(room, f)
                         ELSE handle_room_reject(room, f)
                    ELSE [r |-> room, sent |-> <<>>]
           IN  /\ room' = r.r
               /\ outbox' = outbox \o r.sent
               /\ room_sender' = f
    /\ nmsg' = nmsg + 1
    /\ UNCHANGED <<session, now, arrived, pending, calls, nproc, nops,
                 notify_mode, tick, registry>>

\* AIMPHubAgent.poll -> _check_deadlines
CheckDeadlines ==
    /\ room.status = "open"
    /\ is_past_deadline(room, now)
    /\ LET r == finalize_room(room)
       IN  /\ room' = r.r
           /\ outbox' = outbox \o r.sent
    /\ UNCHANGED <<session, now, nmsg, arrived, pending, calls, nproc, nops,
                 notify_mode, tick, room_sender, registry>>

Tick ==
    /\ now < MaxTime
    /\ now' = now + 1
    /\ UNCHANGED <<session, room, outbox, nmsg, arrived, pending, calls, nproc, nops,
                 notify_mode, tick, room_sender, registry>>

Next ==
    \/ HandleAimpEmail
    \/ HandleHumanEmail
    \/ HandleRoomEmail
    \/ HandleRoomVeto
    \/ CheckDeadlines
    \/ Tick

Spec == Init /\ [][Next]_vars

\* ------------------------------------------------------------------------
\* SpecProtocol: the protocol model and the session round processor driven
\* call by call
\* ------------------------------------------------------------------------
\* the pending lists a round is processed with
PendingLists ==
    {<<>>} \cup {<<m>> : m \in MsgsFrom(Alice) \cup MsgsFrom(Bob)}
           \cup {<<m1, m2>> : m1 \in MsgsFrom(Alice), m2 \in MsgsFrom(Bob)}

\* the direct calls made on the session
OptionCalls == {<<"time", "o2">>, <<"budget", "o1">>}
VoteCalls == {<<Hub, "time", "o1">>, <<Hub, "location", "o1">>,
              <<Stranger, "time", "o2">>, <<Bob, "budget", "o1">>}

ProtoInit ==
    /\ session \in InitialSessions
    /\ outbox = <<>>
    /\ nproc = 0
    /\ nops = 0
    /\ room = AIMPRoom(<<Alice, Bob>>, Alice, Deadline)
    /\ now = 0
    /\ nmsg = 0
    /\ arrived = {}
    /\ pending = <<>>
    /\ calls = NoCalls
    /\ notify_mode = "email"
    /\ tick = NoTick
    /\ room_sender = None
    /\ registry = NoRegistry

ProtoProcessRound ==
    /\ nproc < MaxProc
    /\ \E rows \in PendingLists :
         LET r == process_session_round(session, rows)
         IN  /\ session' = r.s
             /\ outbox' = Append(outbox, r.sent)
    /\ nproc' = nproc + 1
    /\ UNCHANGED <<nops, hubState>>

ProtoAddOption ==
    /\ nops < MaxOps /\ nproc = 0
    /\ \E c \in OptionCalls : session' = add_option(session, c[1], c[2])
    /\ nops' = nops + 1
    /\ UNCHANGED <<outbox, nproc, hubState>>

ProtoApplyVote ==
    /\ nops < MaxOps /\ nproc = 0
    /\ \E c \in VoteCalls : session' = apply_vote(session, c[1], c[2], c[3]).s
    /\ nops' = nops + 1
    /\ UNCHANGED <<outbox, nproc, hubState>>

ProtoApplyVotes ==
    /\ nops < MaxOps /\ nproc = 0
    /\ \E voter \in {Hub, Stranger}, tpl \in {"agree"} :
         session' = apply_votes(session, voter, HumanVotes(tpl)).s
    /\ nops' = nops + 1
    /\ UNCHANGED <<outbox, nproc, hubState>>

ProtoEnsureParticipant ==
    /\ nops < MaxOps /\ nproc = 0
    /\ session' = ensure_participant(session, Stranger)
    /\ nops' = nops + 1
    /\ UNCHANGED <<outbox, nproc, hubState>>

ProtoNext ==
    \/ ProtoProcessRound
    \/ ProtoAddOption
    \/ ProtoApplyVote
    \/ ProtoApplyVotes
    \/ ProtoEnsureParticipant

SpecProtocol == ProtoInit /\ [][ProtoNext]_vars

\* ------------------------------------------------------------------------
\* Properties of SpecProtocol
\* ------------------------------------------------------------------------
\* every item has the same option voted by every participant
Unanimous(s) ==
    \A i \in DOMAIN s.proposals :
        \E o \in Opts : \A p \in Range(s.participants) :
            p \in DOMAIN s.proposals[i].votes /\ s.proposals[i].votes[p] = o

\* the confirmed and the counter branch of a round-processing step
ConfirmedOutcome ==
    /\ session'.status = "confirmed"
    /\ session'.version = session.version + 1
    /\ session'.history =
           Append(session.history, HistoryEntry(session.version + 1, Hub, "confirm", 0))
    /\ Last(outbox').kind = "confirm"

CounterOutcome ==
    /\ session'.status = session.status
    /\ session'.version = session.version + 1
    /\ session'.history =
           Append(session.history,
                  HistoryEntry(session.version + 1, Hub, "counter", session'.current_round))
    /\ Last(outbox').kind = "counter"

EscalatedOutcome ==
    /\ session'.status = "escalated"
    /\ session'.version = session.version
    /\ session'.history = session.history
    /\ Last(outbox').kind = "escalate"

NoConsensusSoFar ==
    /\ session.status # "confirmed"
    /\ \A i \in DOMAIN session.history : session.history[i].action # "confirm"

\* C8: while no round has reached full consensus, the session is escalated
\* exactly from the fifth process_round on, and the fifth process_round emits
\* the escalation message.
C8_EscalatedAfterFifthRound ==
    NoConsensusSoFar =>
        /\ session.status = "escalated" <=> nproc >= 5
        /\ nproc >= 5 => outbox[5].kind = "escalate"
        /\ \A i \in DOMAIN outbox : i < 5 => outbox[i].kind # "escalate"

C8_Witness ==
    /\ NoConsensusSoFar
    /\ nproc = 5
    /\ session.status = "escalated"
    /\ outbox[5].kind = "escalate"
    /\ Len(session.history) = 5

\* the confirm messages sent so far that are addressed to p
ConfirmsTo(p) == {i \in DOMAIN outbox : outbox[i].kind = "confirm" /\ p \in outbox[i].to}

\* C9: when the processing of round 1 finds the initiator and every other
\* participant voting the same option on every item, the session is confirmed,
\* its history holds the confirm entry and each participant other than the hub
\* has been sent exactly one confirm message.
C9_UnanimousRoundOneConfirms ==
    (nproc = 1 /\ session.current_round = 2 /\ Unanimous(session)) =>
        /\ session.status = "confirmed"
        /\ Last(session.history) = HistoryEntry(session.version, Hub, "confirm", 0)
        /\ \A p \in Range(session.participants) \ {Hub} : Cardinality(ConfirmsTo(p)) = 1

\* round 1 of a three-party session was processed with both members agreeing
\* with the initiator
C9_Witness ==
    /\ nproc = 1
    /\ Unanimous(session)
    /\ session.participants = <<Hub, Alice, Bob>>
    /\ session.status = "confirmed"
    /\ outbox = <<[kind |-> "confirm", to |-> {Alice, Bob}, version |-> session.version]>>

\* C10: every vote stored for every (voter, item) is unvoted or one of the
\* options listed for that item.
C10_VoteIntegrity ==
    \A i \in DOMAIN session.proposals :
        \A v \in DOMAIN session.proposals[i].votes :
            \/ session.proposals[i].votes[v] = None
            \/ session.proposals[i].votes[v] \in Range(session.proposals[i].options)

\* a direct call and round processing have both acted, and a vote for an option
\* that was not listed at creation is stored
C10_Witness ==
    /\ nops = 1
    /\ nproc >= 1
    /\ \E i \in DOMAIN session.proposals :
           \E v \in DOMAIN session.proposals[i].votes :
               session.proposals[i].votes[v] = "o2"
    /\ "budget" \in DOMAIN session.proposals

\* ------------------------------------------------------------------------
\* SpecRound: record_round_reply, is_round_complete and advance_round of a
\* Session and of a Room created with the same participants and initiator and
\* given the same calls
\* ------------------------------------------------------------------------
\* the highest round SpecRound advances to
MaxRound == 3

\* <<participants, initiator>>: no participant at all, the initiator alone, the
\* initiator and one or two others
RoundInputs ==
    { <<<<>>, "">>, <<<<Hub>>, Hub>>, <<<<Hub, Alice>>, Hub>>,
      <<<<Hub, Alice, Bob>>, Hub>>, <<<<Alice>>, Alice>>, <<<<Alice, Bob>>, Alice>> }

RoundInit ==
    /\ \E inp \in RoundInputs :
           /\ session = AIMPSession(inp[1], inp[2])
           /\ room = AIMPRoom(inp[1], inp[2], Deadline)
    /\ outbox = <<>>
    /\ nproc = 0
    /\ nops = 0
    /\ now = 0
    /\ nmsg = 0
    /\ arrived = {}
    /\ pending = <<>>
    /\ calls = NoCalls
    /\ notify_mode = "email"
    /\ tick = NoTick
    /\ room_sender = None
    /\ registry = NoRegistry

RoundRecordReply ==
    /\ \E f \in {Hub, Alice, Bob} :
           /\ session' = record_round_reply(session, f)
           /\ room' = room_record_round_reply(room, f)
    /\ UNCHANGED <<outbox, nproc, nops, now, nmsg, arrived, pending, calls,
                 notify_mode, tick, room_sender, registry>>

RoundAdvance ==
    /\ session.current_round < MaxRound
    /\ session' = advance_round(session)
    /\ room' = room_advance_round(room)
    /\ UNCHANGED <<outbox, nproc, nops, now, nmsg, arrived, pending, calls,
                 notify_mode, tick, room_sender, registry>>

RoundNext == RoundRecordReply \/ RoundAdvance

SpecRound == RoundInit /\ [][RoundNext]_vars

\* the rule as the specification words it, for an entity x (a Session or a Room)
RoundRuleAsStated(x) ==
    IF x.participants = <<>> THEN FALSE
    ELSE \/ /\ x.current_round = 1
            /\ \A p \in Range(x.participants) \ {x.initiator} :
                   p \in Range(x.round_respondents)
         \/ /\ x.current_round >= 2
            /\ \A p \in Range(x.participants) : p \in Range(x.round_respondents)

\* the respondents the round waits for
ExpectedRespondents(x) ==
    IF x.current_round = 1 THEN Range(x.participants) \ {x.initiator}
    ELSE Range(x.participants)

\* C5 (as stated): is_round_complete() is true iff round 1 and every
\* participant other than the initiator has replied, or round >= 2 and every
\* participant has replied; false when there is no participant.
C5_RoundCompleteAsStated ==
    /\ is_round_complete(session) <=> RoundRuleAsStated(session)
    /\ room_is_round_complete(room) <=> RoundRuleAsStated(room)

\* C5 (amended): is_round_complete() is true iff the set of expected
\* respondents (round 1: the participants other than the initiator; round >= 2:
\* all participants) is not empty and every one of them is in
\* round_respondents; so it is false for no participant at all and also in
\* round 1 when the initiator is the only participant.
C5_RoundComplete ==
    /\ is_round_complete(session) <=>
           /\ ExpectedRespondents(session) # {}
           /\ ExpectedRespondents(session) \subseteq Range(session.round_respondents)
    /\ room_is_round_complete(room) <=>
           /\ ExpectedRespondents(room) # {}
           /\ ExpectedRespondents(room) \subseteq Range(room.round_respondents)

\* round 2 of a three-party entity is complete once the initiator has replied too
C5_Witness ==
    /\ session.current_round = 2
    /\ Len(session.participants) = 3
    /\ is_round_complete(session)
    /\ room_is_round_complete(room)
    /\ session.initiator \in Range(session.round_respondents)

\* ------------------------------------------------------------------------
\* Properties of Spec
\* ------------------------------------------------------------------------
\* a step that handles one inbound session message
SessionMessageStep == nmsg' = nmsg + 1 /\ (session' # session \/ arrived' # arrived)

\* C1: replies to a session are processed (folded into the stored session,
\* answered) only by the round processing that runs once every expected
\* respondent of the round has replied; while the round is incomplete nothing
\* is processed.
C1_ProcessedOnlyWhenRoundComplete ==
    [][(SessionMessageStep /\ (session' # session \/ outbox' # outbox)) =>
          /\ ExpectedRespondents(session) # {}
          /\ ExpectedRespondents(session) \subseteq arrived']_vars

\* C2: when the handling of an inbound message changes the stored Session or
\* Room, a pending-email row has been saved for that message.
C2_PendingRowBeforeEffect ==
    [][(nmsg' = nmsg + 1 /\ (session' # session \/ room' # room)) =>
          Len(pending') = Len(pending) + 1]_vars

\* C4: once a Session is confirmed or escalated no step changes it (status,
\* votes, options, round counter, version, history).
C4_TerminalSessionFrozen ==
    [][session.status \in {"confirmed", "escalated"} => session' = session]_vars

\* every participant of s has voted the same option on item i
AllVotedSame(s, i) ==
    \E o \in Opts : \A p \in Range(s.participants) :
        p \in DOMAIN s.proposals[i].votes /\ s.proposals[i].votes[p] = o

\* C6: an item has consensus iff every participant of the session has voted
\* on it and all votes are the same option; the session is fully resolved iff
\* every item has consensus.
C6_ConsensusIffAllVotedSame ==
    /\ \A i \in DOMAIN session.proposals :
           check_consensus(session)[i] # None <=> AllVotedSame(session, i)
    /\ is_fully_resolved(session) <=>
           \A i \in DOMAIN session.proposals : AllVotedSame(session, i)

\* ------------------------------------------------------------------------
\* SpecGate: the store-first, round-gated tick over one session and one room.
\* A fetched message is first inserted into pending_emails, the sender is
\* recorded as a respondent of the round, and when the round is complete the
\* unprocessed rows are loaded, handed to process_round and marked processed.
\* ------------------------------------------------------------------------
\* the number of inbound messages a run of SpecGate handles
MaxGateMsgs == 3

RowIds(rows) == [i \in DOMAIN rows |-> rows[i].id]

RECURSIVE mark_each(_, _)
mark_each(tbl, rows) ==
    IF rows = <<>> THEN tbl
    ELSE mark_each(mark_processed(tbl, rows[1].id), Tail(rows))

\* the calls log after rows were handed to process_round and marked
Logged(rows) ==
    [dispatched |-> calls.dispatched \o RowIds(rows),
     marked     |-> calls.marked \o RowIds(rows)]

\* the sessions the hub has initiated for one member and for two
GateSessions == {initiate_internal_meeting(<<Alice>>),
                 initiate_internal_meeting(<<Alice, Bob>>)}

GateInit ==
    /\ session \in GateSessions
    /\ room \in InitialRooms
    /\ outbox = <<>>
    /\ now = 0
    /\ nmsg = 0
    /\ arrived = {}
    /\ pending = <<>>
    /\ calls = NoCalls
    /\ nproc = 0
    /\ nops = 0
    /\ notify_mode \in NotifyModes
    /\ tick = NoTick
    /\ room_sender = None
    /\ registry = NoRegistry

GateSessionEmail ==
    /\ nmsg < MaxGateMsgs
    /\ \E f \in Senders : \E m \in MsgsFrom(f) :
           LET tbl == save_pending_email(pending, "session", f, m.has_proto,
                                         m.proposals, m.body, now)
               s1  == record_round_reply(session, f)
               rows == load_pending_for_session(tbl)
               r   == process_session_round(s1, rows)
           IN  /\ arrived' = arrived \cup {f}
               /\ IF is_round_complete(s1)
                  THEN /\ session' = r.s
                       /\ outbox' = Append(outbox, r.sent)
                       /\ pending' = mark_each(tbl, rows)
                       /\ calls' = Logged(rows)
                       /\ nproc' = nproc + 1
                  ELSE /\ session' = s1
                       /\ pending' = tbl
                       /\ UNCHANGED <<outbox, calls, nproc>>
    /\ nmsg' = nmsg + 1
    /\ UNCHANGED <<room, now, nops, notify_mode, tick, room_sender, registry>>

GateRoomEmail ==
    /\ nmsg < MaxGateMsgs
    /\ \E f \in Senders : \E am \in Amendments :
           LET tbl == save_pending_email(pending, "room", f, FALSE, <<>>, am, now)
               r1  == room_record_round_reply(room, f)
               rows == load_pending_for_room(tbl)
               r   == process_room_round(r1, rows, now)
           IN  IF room_is_round_complete(r1)
               THEN /\ room' = r.r
                    /\ outbox' = outbox \o r.sent
                    /\ pending' = mark_each(tbl, rows)
                    /\ calls' = Logged(rows)
                    /\ nproc' = nproc + 1
               ELSE /\ room' = r1
                    /\ pending' = tbl
                    /\ UNCHANGED <<outbox, calls, nproc>>
    /\ nmsg' = nmsg + 1
    /\ UNCHANGED <<session, now, arrived, nops, notify_mode, tick, room_sender, registry>>

GateNext ==
    \/ GateSessionEmail
    \/ GateRoomEmail
    \/ CheckDeadlines
    \/ Tick

SpecGate == GateInit /\ [][GateNext]_vars

\* ------------------------------------------------------------------------
\* Properties of SpecGate
\* ------------------------------------------------------------------------
NoRepeat(q) == \A i, j \in DOMAIN q : q[i] = q[j] => i = j

C11_VersionAndLogMonotone ==
    [][/\ session'.version >= session.version
       /\ Len(session'.history) >= Len(session.history)
       /\ Len(room'.transcript) >= Len(room.transcript)]_vars

\* ------------------------------------------------------------------------
\* Further properties of SpecGate
\* ------------------------------------------------------------------------
\* a step in which _process_room_round ran: the round of the room advanced
RoomRoundStep == room'.current_round = room.current_round + 1

\* the messages the step sent
NewMail == SubSeq(outbox', Len(outbox) + 1, Len(outbox'))

\* the step sent every participant of the room the digest of the round
DigestToAll ==
    \A p \in Range(room'.participants) :
        \E i \in DOMAIN NewMail : NewMail[i].kind = "room_round" /\ NewMail[i].to = {p}

MaxFetch == 2
\* the number of polls of a run
MaxPolls == 2

\* the lists of at most MaxFetch elements of S
RECURSIVE ListsUpTo(_, _)
ListsUpTo(S, n) ==
    IF n = 0 THEN {<<>>}
    ELSE LET shorter == ListsUpTo(S, n - 1)
         IN  shorter \cup {Append(q, x) : q \in shorter, x \in S}

\* a room email: an ACCEPT of Alice or Bob
RoomEmails == [sender : {Alice, Bob}, raises : BOOLEAN]
\* a session email or a member's command
OtherEmails == [raises : BOOLEAN]

\* the emails of fetched list q, as <<phase, place>>
Fetched(phase, q) == {<<phase, i>> : i \in DOMAIN q}

\* the places of q a loop reaches whose body is not guarded: those up to the
\* first email whose handler raises
ReachedUnguarded(q) ==
    {i \in DOMAIN q : \A j \in 1..(i - 1) : ~q[j].raises}

\* the loop of phase 2 over the fetched room emails, each in its own try
RECURSIVE handle_room_emails(_, _, _)
handle_room_emails(r, q, time) ==
    IF q = <<>> THEN [r |-> r, sent |-> <<>>]
    ELSE LET h == IF q[1].raises THEN [r |-> r, sent |-> <<>>]
                  ELSE handle_room_email(r, q[1].sender,
                           [action |-> "ACCEPT", new_content |-> FALSE], time)
             rest == handle_room_emails(h.r, Tail(q), time)
         IN  [r |-> rest.r, sent |-> h.sent \o rest.sent]

TickInit ==
    /\ session = initiate_internal_meeting(<<Alice>>)
    /\ room \in InitialRooms
    /\ outbox = <<>>
    /\ now = 0
    /\ nmsg = 0
    /\ arrived = {}
    /\ pending = <<>>
    /\ calls = NoCalls
    /\ nproc = 0
    /\ nops = 0
    /\ notify_mode \in NotifyModes
    /\ tick = NoTick
    /\ room_sender = None
    /\ registry = NoRegistry

\* poll is entered and fetch_phase2_emails returns
PollBegin ==
    /\ tick.phase \in {"idle", "done"}
    /\ tick.n < MaxPolls
    /\ \E q \in ListsUpTo(RoomEmails, MaxFetch) :
           tick' = [NoTick EXCEPT !.phase = "room", !.room_emails = q,
                                  !.due = (room.status = "open" /\ now > room.deadline),
                                  !.n = tick.n + 1]
    /\ UNCHANGED <<session, room, outbox, now, nmsg, arrived, pending, calls,
                   nproc, nops, notify_mode, room_sender, registry>>

\* the loop over the room emails; then fetch_aimp_emails returns
PollRoomEmails ==
    /\ tick.phase = "room"
    /\ LET r == handle_room_emails(room, tick.room_emails, now)
       IN  /\ room' = r.r
           /\ outbox' = outbox \o r.sent
    /\ \E q \in ListsUpTo(OtherEmails, MaxFetch) :
           tick' = [tick EXCEPT !.phase = "aimp", !.aimp_emails = q,
                                !.handled = @ \cup Fetched("room", tick.room_emails)]
    /\ UNCHANGED <<session, now, nmsg, arrived, pending, calls, nproc, nops,
                   notify_mode, room_sender, registry>>

\* AIMPAgent.poll: the loop over the session emails, each in its own try; then
\* fetch_all_unread_emails returns
PollAimpEmails ==
    /\ tick.phase = "aimp"
    /\ \E q \in ListsUpTo(OtherEmails, MaxFetch) :
           tick' = [tick EXCEPT !.phase = "member", !.all_emails = q,
                                !.handled = @ \cup Fetched("aimp", tick.aimp_emails)]
    /\ UNCHANGED <<session, room, outbox, now, nmsg, arrived, pending, calls,
                   nproc, nops, notify_mode, room_sender, registry>>

\* the loop over the remaining unread emails, the whole of it in one try
PollMemberEmails ==
    /\ tick.phase = "member"
    /\ tick' = [tick EXCEPT !.phase = "sweep",
                            !.handled = @ \cup
                                {<<"member", i>> : i \in ReachedUnguarded(tick.all_emails)}]
    /\ UNCHANGED <<session, room, outbox, now, nmsg, arrived, pending, calls,
                   nproc, nops, notify_mode, room_sender, registry>>

\* _check_deadlines, and poll returns
PollSweep ==
    /\ tick.phase = "sweep"
    /\ LET r == IF room.status = "open" /\ is_past_deadline(room, now)
                THEN finalize_room(room)
                ELSE [r |-> room, sent |-> <<>>]
       IN  /\ room' = r.r
           /\ outbox' = outbox \o r.sent
    /\ tick' = [tick EXCEPT !.phase = "done", !.swept = TRUE]
    /\ UNCHANGED <<session, now, nmsg, arrived, pending, calls, nproc, nops,
                   notify_mode, room_sender, registry>>

TickNext ==
    \/ PollBegin
    \/ PollRoomEmails
    \/ PollAimpEmails
    \/ PollMemberEmails
    \/ PollSweep
    \/ Tick

SpecTick == TickInit /\ [][TickNext]_vars

\* ------------------------------------------------------------------------
\* Properties of SpecTick
\* ------------------------------------------------------------------------
\* the step that runs the deadline sweep of a poll
SweepStep == tick.phase = "sweep" /\ tick'.phase = "done"

\* C13: the sweep of a poll finalizes the room when it is open and its deadline
\* lies in the past, and leaves alone a room whose deadline has not passed; a
\* room that was open and past its deadline when the poll began is finalized
\* when the sweep has run.
C13_DeadlineSweep ==
    [][SweepStep =>
          /\ IF room.status = "open" /\ now > room.deadline
             THEN room'.status = "finalized"
             ELSE room' = room
          /\ tick.due => room'.status = "finalized"]_vars

\* a poll began with the room open and past its deadline, and its sweep
\* finalized the room on the deadline trigger
C13_Witness ==
    /\ tick.phase = "done"
    /\ tick.due
    /\ room.status = "finalized"
    /\ Last(room.transcript).action = "FINALIZED"
    /\ Last(room.transcript).summary = "deadline_expired"
    /\ ~all_accepted(room)

\* the emails the poll fetched
AllFetched ==
    Fetched("room", tick.room_emails) \cup Fetched("aimp", tick.aimp_emails)
        \cup Fetched("member", tick.all_emails)

\* C19: when a poll has returned, the handler of every email it fetched, in
\* each of the three phases, was called, whichever handlers raised, and the
\* deadline sweep has run.
C19_ErrorDoesNotAbortTick ==
    tick.phase = "done" => tick.handled = AllFetched /\ tick.swept

\* ------------------------------------------------------------------------
\* Properties of Spec: the rooms
\* ------------------------------------------------------------------------
\* a step in which the room is finalized
BecomesFinalized == room.status # "finalized" /\ room'.status = "finalized"

\* C14: the step that finalizes a room sets its status to finalized and
\* appends a FINALIZED transcript entry whose trigger is all_accepted when every
\* participant is in accepted_by and deadline_expired otherwise.
C14_FinalizedEntry ==
    [][BecomesFinalized =>
          /\ Len(room'.transcript) = Len(room.transcript) + 1
             \/ Len(room'.transcript) = Len(room.transcript) + 2
          /\ Last(room'.transcript) =
                 HistoryEntry(Len(room'.transcript), Hub, "FINALIZED",
                              IF \A p \in Range(room'.participants) :
                                     p \in Range(room'.accepted_by)
                              THEN "all_accepted" ELSE "deadline_expired")]_vars

\* a room of two was finalized by the ACCEPT of its second participant
C14_Witness ==
    /\ room.status = "finalized"
    /\ Len(room.participants) = 2
    /\ Last(room.transcript).action = "FINALIZED"
    /\ Last(room.transcript).summary = "all_accepted"
    /\ Range(room.accepted_by) = {Alice, Bob}

\* the step sent every participant of the room the minutes
MinutesToAll ==
    \A p \in Range(room'.participants) :
        \E i \in DOMAIN NewMail : NewMail[i].kind = "minutes" /\ NewMail[i].to = {p}

\* C15 as stated: when a room becomes finalized every participant is sent the
\* minutes.
C15_MinutesToAllAsStated == [][BecomesFinalized => MinutesToAll]_vars

\* C15: when a room becomes finalized every participant is sent the minutes
\* if the hub runs in email mode; in stdout mode the room_finalized event is
\* emitted and no mail is sent.
C15_MinutesToAll ==
    [][BecomesFinalized =>
          IF notify_mode = "email" THEN MinutesToAll
          ELSE /\ \E i \in DOMAIN NewMail : NewMail[i].kind = "event_room_finalized"
               /\ \A i \in DOMAIN NewMail : NewMail[i].to = {}]_vars

\* a room of two was finalized by the sweep, nobody having accepted, and the
\* minutes went to both participants
C15_Witness ==
    /\ room.status = "finalized"
    /\ Last(room.transcript).action = "FINALIZED"
    /\ Last(room.transcript).summary = "deadline_expired"
    /\ room.accepted_by = <<>>
    /\ Len(room.participants) = 2
    /\ \A p \in {Alice, Bob} :
           \E i \in DOMAIN outbox : outbox[i].kind = "minutes" /\ outbox[i].to = {p}

\* a step in which a REJECT reply to a finalized room was handled
RejectStep ==
    /\ nmsg' = nmsg + 1
    /\ room.status = "finalized"
    /\ Len(room'.transcript) > Len(room.transcript)
    /\ Last(room'.transcript).action = "REJECT"

\* what a REJECT reply leaves of the room: one more transcript entry, of the
\* rejecter, and nothing else changed
RejectFrame ==
    /\ room'.transcript =
           Append(room.transcript,
                  HistoryEntry(Len(room.transcript) + 1, room_sender', "REJECT", 0))
    /\ room' = [room EXCEPT !.transcript = room'.transcript]

\* the escalation to the initiator and the acknowledgement to the rejecter
RejectMail ==
    << [kind |-> "veto_escalation", to |-> {room.initiator},
        version |-> Len(room'.transcript)],
       [kind |-> "veto_ack", to |-> {room_sender'}, version |-> Len(room'.transcript)] >>

\* C16 as stated: a REJECT reply to a finalized room appends a REJECT entry,
\* sends one escalation to the initiator and one acknowledgement to the
\* rejecter, and leaves status, artifacts and accepted_by as they were.
C16_RejectAsStated == [][RejectStep => RejectFrame /\ NewMail = RejectMail]_vars

\* C16: a REJECT reply to a finalized room appends a REJECT entry and leaves
\* status, artifacts and accepted_by as they were; in email mode it sends one
\* escalation to the initiator and one acknowledgement to the rejecter, in
\* stdout mode it sends nothing.
C16_Reject ==
    [][RejectStep =>
          /\ RejectFrame
          /\ NewMail = IF notify_mode = "email" THEN RejectMail ELSE <<>>]_vars

\* Bob's REJECT of the finalized minutes was escalated to Alice and
\* acknowledged to Bob
C16_Witness ==
    /\ room.status = "finalized"
    /\ Last(room.transcript).action = "REJECT"
    /\ Last(room.transcript).from_agent = Bob
    /\ room.initiator = Alice
    /\ Len(outbox) >= 2
    /\ outbox[Len(outbox) - 1].kind = "veto_escalation"
    /\ outbox[Len(outbox) - 1].to = {Alice}
    /\ Last(outbox).kind = "veto_ack"
    /\ Last(outbox).to = {Bob}

\* a step in which a room handler was handed an email of a sender who is not
\* a participant of the room
NonParticipantRoomStep ==
    /\ nmsg' = nmsg + 1
    /\ session' = session
    /\ arrived' = arrived
    /\ room_sender' \notin Range(room.participants)

\* C17: an email for a room from a sender who is not a participant of the
\* room leaves the stored room as it was.
C17_NonParticipantIgnored == [][NonParticipantRoomStep => room' = room]_vars

\* ------------------------------------------------------------------------
\* Properties of SpecGate: the order of the rows
\* ------------------------------------------------------------------------
\* the pending row of an id
RowOf(id) == pending[id]

C18_ParticipantsAsInvited ==
    [][Range(session'.participants) \subseteq Range(session.participants)]_vars

\* ------------------------------------------------------------------------
\* Properties of SpecGate: no row is left behind
\* ------------------------------------------------------------------------
\* a step in which _process_session_round ran: the round of the session advanced
SessionRoundStep == session'.current_round = session.current_round + 1

\* every row of the entity is processed and was handed to process_round
AllRowsDone(entity) ==
    \A i \in DOMAIN pending' :
        pending'[i].entity = entity =>
            /\ pending'[i].processed
            /\ pending'[i].id \in Range(calls'.dispatched)

BobUpper == "B"
Daemon == "mailer-daemon"
DaemonUpper == "MAILER-DAEMON"
Alerts == "alerts-noreply"

Lowered ==
    ("B" :> "b") @@ ("MAILER-DAEMON" :> "mailer-daemon") @@ ("NoReply" :> "noreply")
    @@ ("Undeliverable" :> "undeliverable") @@ ("Out Of Office" :> "out of office")
    @@ ("AUTOMATIC REPLY" :> "automatic reply") @@ ("Re" :> "re")
    @@ ("[AIMP-INVITE:" :> "[aimp-invite:") @@ ("[Aimp-Invite:" :> "[aimp-invite:")

lower(s) == IF s \in DOMAIN Lowered THEN Lowered[s] ELSE s

lower_str(q) == [i \in DOMAIN q |-> lower(q[i])]

RECURSIVE lstrip(_)
lstrip(q) == IF q # <<>> /\ q[1] = " " THEN lstrip(Tail(q)) ELSE q

RECURSIVE rstrip(_)
rstrip(q) == IF q # <<>> /\ q[Len(q)] = " " THEN rstrip(SubSeq(q, 1, Len(q) - 1)) ELSE q

strip(q) == rstrip(lstrip(q))

\* from_email.split("@")[0]
LocalPieces == ("alerts-noreply" :> <<"alerts-", "noreply">>)
split_local(addr) == IF addr \in DOMAIN LocalPieces THEN LocalPieces[addr] ELSE <<addr>>

\* ------------------------------------------------------------------------
\* handlers/command_handler.py : auto-reply / spam protection
\* ------------------------------------------------------------------------
AUTO_REPLY_LOCALS ==
    {"no-reply", "noreply", "no_reply", "mailer-daemon", "mailer_daemon",
     "postmaster", "bounce", "bounces", "do-not-reply", "donotreply",
     "auto-reply", "autoreply", "notifications", "notification"}

AUTO_REPLY_SUBJECT_PREFIXES ==
    {"out of office", "automatic reply", "auto reply", "autoreply",
     "undeliverable", "delivery status notification", "delivery failure",
     "mail delivery failed", "returned mail", "failure notice"}

\* the patterns looked for inside the local part
AutoReplyFamilies == {"no-reply", "noreply", "mailer-daemon", "do-not-reply"}

\* the filter that looks at the sender only
is_auto_reply_sender_only(from_email, subject) ==
    LET local == split_local(lower(from_email))
    IN  \/ Len(local) = 1 /\ local[1] \in AUTO_REPLY_LOCALS
        \/ \E i \in DOMAIN local : local[i] \in AutoReplyFamilies

is_auto_reply(from_email, subject) ==
    LET local == split_local(lower(from_email))
        subj  == strip(lower_str(subject))
    IN  \/ Len(local) = 1 /\ local[1] \in AUTO_REPLY_LOCALS
        \/ \E i \in DOMAIN local : local[i] \in AutoReplyFamilies
        \/ subject # <<>> /\ subj # <<>> /\ subj[1] \in AUTO_REPLY_SUBJECT_PREFIXES

\* ------------------------------------------------------------------------
\* hub_agent.py, handlers/registration_handler.py : identity
\* ------------------------------------------------------------------------
DAY == 86400

\* date.today() as a day number
today(time) == time \div DAY

NoExpiry == [kind |-> "none", day |-> 0]
ExpiresOn(d) == [kind |-> "date", day |-> d]
\* an `expires` that date.fromisoformat refuses
BadExpiry == [kind |-> "malformed", day |-> 0]

Mail(kind, to, code, time) == [kind |-> kind, to |-> to, code |-> code, at |-> time]

send_human_email(reg, kind, to, code, time) ==
    [reg EXCEPT !.sent = Append(@, Mail(kind, to, code, time))]

identify_sender(reg, from_email) ==
    IF lower(from_email) \in DOMAIN reg.email_to_member
    THEN reg.email_to_member[lower(from_email)] ELSE None

\* the index of the first record with that code, 0 when there is none
RECURSIVE first_with_code(_, _, _)
first_with_code(codes, code, i) ==
    IF i > Len(codes) THEN 0
    ELSE IF codes[i].code = code THEN i
    ELSE first_with_code(codes, code, i + 1)

\* a validation that never looks at the expiry date
validate_invite_code_no_expiry(reg, code, time) ==
    LET i == first_with_code(reg.invite_codes, code, 1)
    IN  IF i = 0 THEN 0
        ELSE IF reg.invite_codes[i].max_uses > 0
                /\ reg.invite_codes[i].used >= reg.invite_codes[i].max_uses THEN 0
        ELSE i

\* _validate_invite_code: the index of the record it returns, 0 for None.  An
\* expiry that does not parse as a date is passed over.
validate_invite_code(reg, code, time) ==
    LET i == first_with_code(reg.invite_codes, code, 1)
    IN  IF i = 0 THEN 0
        ELSE IF reg.invite_codes[i].expires.kind = "date"
                /\ today(time) > reg.invite_codes[i].expires.day THEN 0
        ELSE IF reg.invite_codes[i].max_uses > 0
                /\ reg.invite_codes[i].used >= reg.invite_codes[i].max_uses THEN 0
        ELSE i

\* _register_trusted_user
register_trusted_user(reg, email) ==
    [reg EXCEPT !.email_to_member =
        [a \in DOMAIN @ \cup {lower(email)} |->
            IF a = lower(email) THEN "trusted" ELSE @[a]]]

\* a consumption that leaves the counter alone
consume_invite_code_keep(reg, code) == reg

\* _consume_invite_code
consume_invite_code(reg, code) ==
    LET i == first_with_code(reg.invite_codes, code, 1)
    IN  IF i = 0 THEN reg
        ELSE [reg EXCEPT !.invite_codes[i].used = @ + 1]

\* _handle_invite_request
handle_invite_request(reg, from_email, code, time) ==
    IF identify_sender(reg, from_email) # None
    THEN send_human_email(reg, "already_registered", from_email, code, time)
    ELSE IF validate_invite_code(reg, code, time) = 0
    THEN send_human_email(reg, "invite_invalid", from_email, code, time)
    ELSE send_human_email(
             consume_invite_code(register_trusted_user(reg, from_email), code),
             "welcome", from_email, code, time)

\* the code of the first [AIMP-INVITE:<code>] of the subject, None without one
\* (the tag is matched whatever its case, the code is taken as written)
invite_code_of(subject) ==
    LET hits == {i \in DOMAIN subject :
                    /\ lower(subject[i]) = "[aimp-invite:"
                    /\ i + 2 <= Len(subject)
                    /\ subject[i + 2] = "]"}
    IN  IF hits = {} THEN None
        ELSE subject[(CHOOSE i \in hits : \A j \in hits : i <= j) + 1]

\* a throttle that remembers the address as it was written
reply_unknown_sender_raw_key(reg, from_email, mode, time) ==
    IF mode # "email" THEN reg
    ELSE IF from_email \in DOMAIN reg.replied_senders
            /\ time - reg.replied_senders[from_email] < DAY THEN reg
    ELSE send_human_email(
             [reg EXCEPT !.replied_senders =
                 [a \in DOMAIN @ \cup {from_email} |->
                     IF a = from_email THEN time ELSE @[a]]],
             "how_to_register", from_email, None, time)

\* _reply_unknown_sender
reply_unknown_sender(reg, from_email, mode, time) ==
    IF mode # "email" THEN reg
    ELSE IF time - (IF lower(from_email) \in DOMAIN reg.replied_senders
                    THEN reg.replied_senders[lower(from_email)] ELSE 0) < DAY THEN reg
    ELSE send_human_email(
             [reg EXCEPT !.replied_senders =
                 [a \in DOMAIN @ \cup {lower(from_email)} |->
                     IF a = lower(from_email) THEN time ELSE @[a]]],
             "how_to_register", from_email, None, time)

MaxVotes == 4

Ballots ==
    {[voter |-> v, item |-> i, choice |-> c] :
        v \in Senders, i \in {"time", "location"}, c \in Opts}

\* the orders in which up to MaxVotes ballots, no two of one voter on one item,
\* can arrive
BallotOrders ==
    UNION {{q \in [1..n -> Ballots] :
               \A i, j \in 1..n :
                   i # j => (q[i].voter # q[j].voter \/ q[i].item # q[j].item)} :
           n \in 0..MaxVotes}

\* the session the votes are cast in: the hub has listed both times and one
\* location and has voted for the first of each
VoteBase == initiate_meeting(<<Alice, Bob>>, <<"o1", "o2">>, <<"o1">>)

RECURSIVE save_ballots(_, _)
save_ballots(tbl, q) ==
    IF q = <<>> THEN tbl
    ELSE save_ballots(
             save_pending_email(tbl, "session", q[1].voter, FALSE, <<>>,
                                << <<q[1].item, q[1].choice>> >>, 0),
             Tail(q))

VotesInit ==
    /\ session = VoteBase
    /\ pending \in {save_ballots(<<>>, q) : q \in BallotOrders}
    /\ room \in InitialRooms
    /\ outbox = <<>>
    /\ now = 0
    /\ nmsg = 0
    /\ arrived = {}
    /\ calls = NoCalls
    /\ nproc = 0
    /\ nops = 0
    /\ notify_mode = "email"
    /\ tick = NoTick
    /\ room_sender = None
    /\ registry = NoRegistry

\* session.apply_vote(voter, item, choice) for the first vote not yet inserted;
\* a refused vote is passed over
VoteInsert ==
    /\ \E i \in DOMAIN pending :
           /\ ~pending[i].processed
           /\ \A j \in 1..(i - 1) : pending[j].processed
           /\ session' = apply_vote(session, pending[i].from_addr,
                                    pending[i].body[1][1], pending[i].body[1][2]).s
           /\ pending' = mark_processed(pending, pending[i].id)
    /\ UNCHANGED <<outbox, nproc, nops, room, now, nmsg, arrived, calls,
                   notify_mode, tick, room_sender, registry>>

VotesNext == VoteInsert

SpecVotes == VotesInit /\ [][VotesNext]_vars

\* the votes of the store inserted into the base session in the order q
RECURSIVE insert_all(_, _)
insert_all(s, q) ==
    IF q = <<>> THEN s
    ELSE insert_all(apply_vote(s, q[1].from_addr, q[1].body[1][1], q[1].body[1][2]).s,
                    Tail(q))

\* every order of the rows of the store
Shuffles(tbl) ==
    {[i \in DOMAIN tbl |-> tbl[f[i]]] :
        f \in {g \in [DOMAIN tbl -> DOMAIN tbl] : \A i, j \in DOMAIN tbl : i # j => g[i] # g[j]}}

\* ------------------------------------------------------------------------
\* C29: check_consensus depends on the votes cast, not on the order of their
\* insertion.  Once every vote of the store is inserted, the consensus of the
\* session is the consensus reached by inserting the same votes into the same
\* session in any other order.
\* ------------------------------------------------------------------------
C29_OrderIndependent ==
    (\A i \in DOMAIN pending : pending[i].processed) =>
        \A q \in Shuffles(pending) :
            check_consensus(insert_all(VoteBase, q)) = check_consensus(session)

\* four votes inserted, the first of them Bob's and the last Alice's, that settle both items
C29_Witness ==
    /\ Len(pending) = 4
    /\ \A i \in DOMAIN pending : pending[i].processed
    /\ pending[1].from_addr = Bob
    /\ pending[4].from_addr = Alice
    /\ is_fully_resolved(session)

\* ------------------------------------------------------------------------
\* handlers/command_handler.py : member commands
\* ------------------------------------------------------------------------
\* the store before any session or room was saved (store.load returns None)
NoSession == [AIMPSession(<<>>, "") EXCEPT !.status = "absent"]
NoRoom == [AIMPRoom(<<>>, "", 0) EXCEPT !.status = "absent"]

\* the contacts of the configuration
Contacts == ("Bob" :> Bob)

\* _find_participant_contact, for the names of people who are not members
find_participant_contact(name) ==
    IF name \in DOMAIN Contacts THEN Contacts[name] ELSE None

\* what _parse_member_request can answer
Req(action, topic, participants, deadline, missing) ==
    [action |-> action, topic |-> topic, participants |-> participants,
     deadline |-> deadline, missing |-> missing]

MemberRequests ==
    { Req("unclear", FALSE, <<>>, FALSE, <<"topic", "participants">>),
      Req("schedule_meeting", TRUE, <<"Bob">>, FALSE, <<>>),
      Req("schedule_meeting", FALSE, <<"Bob">>, FALSE, <<>>),
      Req("schedule_meeting", TRUE, <<>>, FALSE, <<>>),
      Req("schedule_meeting", TRUE, <<"Bob">>, FALSE, <<"initiator_times">>),
      Req("schedule_meeting", TRUE, <<"Bob", "Carol">>, FALSE, <<>>),
      Req("create_room", TRUE, <<"Bob">>, TRUE, <<>>),
      Req("create_room", TRUE, <<"Bob">>, FALSE, <<>>),
      Req("create_room", FALSE, <<"Bob">>, TRUE, <<>>),
      Req("create_room", TRUE, <<"Bob">>, TRUE, <<"initial_proposal">>),
      Req("create_room", TRUE, <<"Carol">>, TRUE, <<>>) }

unknown_names(names) ==
    SelectSeq(names, LAMBDA n : find_participant_contact(n) = None)

contact_emails(names) ==
    [i \in DOMAIN names |-> find_participant_contact(names[i])]

RECURSIVE send_each(_, _, _, _)
send_each(reg, kind, tos, time) ==
    IF tos = <<>> THEN reg
    ELSE send_each(send_human_email(reg, kind, tos[1], None, time), kind, Tail(tos), time)

\* AIMPHubAgent.initiate_meeting with outside contacts: the hub invites the
\* contacts with no preference of its own and, in email mode, adds the member
hub_initiate_meeting(member_email, names, mode) ==
    LET s == initiate_meeting(contact_emails(names), <<>>, <<>>)
    IN  IF mode = "email" THEN ensure_participant(s, member_email) ELSE s

\* _handle_create_room_command
handle_create_room_command(reg, rm, from_email, req, mode, time) ==
    IF ~req.topic \/ req.participants = <<>> \/ ~req.deadline
    THEN [registry |-> IF mode = "email"
                       THEN send_human_email(reg, "info_requested", from_email, None, time)
                       ELSE reg,
          room |-> rm]
    ELSE IF unknown_names(req.participants) # <<>>
    THEN [registry |-> IF mode = "email"
                       THEN send_human_email(reg, "contact_unknown", from_email, None, time)
                       ELSE reg,
          room |-> rm]
    ELSE [registry |-> IF mode = "email"
                       THEN send_each(reg, "room_invitation",
                                      contact_emails(req.participants), time)
                       ELSE reg,
          room |-> initiate_room(<<from_email>> \o contact_emails(req.participants),
                                 from_email, time + DAY, FALSE)]

\* handle_member_command
handle_member_command(reg, sess, rm, from_email, req, mode, time) ==
    IF identify_sender(reg, from_email) = None
    THEN [registry |-> IF mode = "email"
                       THEN reply_unknown_sender(reg, from_email, mode, time) ELSE reg,
          session |-> sess, room |-> rm]
    ELSE IF req.action = "create_room"
    THEN LET r == handle_create_room_command(reg, rm, from_email, req, mode, time)
         IN  [registry |-> r.registry, session |-> sess, room |-> r.room]
    ELSE IF req.action # "schedule_meeting"
    THEN [registry |-> IF mode = "email"
                       THEN send_human_email(reg, "unclear", from_email, None, time)
                       ELSE reg,
          session |-> sess, room |-> rm]
    ELSE IF req.missing # <<>> \/ ~req.topic \/ req.participants = <<>>
    THEN [registry |-> IF mode = "email"
                       THEN send_human_email(reg, "info_requested", from_email, None, time)
                       ELSE reg,
          session |-> sess, room |-> rm]
    ELSE IF unknown_names(req.participants) # <<>>
    THEN [registry |-> IF mode = "email"
                       THEN send_human_email(reg, "contact_unknown", from_email, None, time)
                       ELSE reg,
          session |-> sess, room |-> rm]
    ELSE [registry |-> send_each(reg, "invitation", contact_emails(req.participants), time),
          session |-> hub_initiate_meeting(lower(from_email), req.participants, mode),
          room |-> rm]

\* ------------------------------------------------------------------------
\* hub_agent.py : the third fetch of poll and _handle_human_email
\* ------------------------------------------------------------------------
\* the body of the loop over fetch_all_unread_emails, for one email
handle_other_email(reg, sess, rm, m, req, mode, time) ==
    IF identify_sender(reg, m.sender) # None
    THEN handle_member_command(reg, sess, rm, m.sender, req, mode, time)
    ELSE IF is_auto_reply(m.sender, m.subject)
    THEN [registry |-> reg, session |-> sess, room |-> rm]
    ELSE IF invite_code_of(m.subject) # None
    THEN [registry |-> handle_invite_request(reg, m.sender, invite_code_of(m.subject), time),
          session |-> sess, room |-> rm]
    ELSE [registry |-> reply_unknown_sender(reg, m.sender, mode, time),
          session |-> sess, room |-> rm]

\* the sender is one the hub invited to the session and does not know yet
invited_newcomer(reg, sess, m) ==
    /\ sess.status # "absent"
    /\ identify_sender(reg, m.sender) = None
    /\ ~is_auto_reply(m.sender, m.subject)
    /\ lower(m.sender) \in {lower(sess.participants[i]) : i \in DOMAIN sess.participants}

\* AIMPHubAgent._handle_human_email for a reply that names the session: the
\* auto-registration, then the handler of the parent class
hub_handle_human_email(reg, sess, m, reply, mode, time) ==
    LET reg1 == IF invited_newcomer(reg, sess, m)
                THEN LET g == register_trusted_user(reg, m.sender)
                     IN  IF mode = "email"
                         THEN send_human_email(g, "auto_welcome", m.sender, None, time)
                         ELSE g
                ELSE reg
        r == IF sess.status = "absent" THEN [s |-> sess, sent |-> <<>>]
             ELSE handle_human_email(sess, m.sender, reply)
    IN  [registry |-> reg1, session |-> r.s, sent |-> r.sent]

\* ------------------------------------------------------------------------
\* SpecIdentity: a hub with one member (Alice), one contact (Bob) and four
\* invite codes handles the emails of the third fetch and the replies that
\* name its session, one email a step, while time passes.
\* ------------------------------------------------------------------------
MaxIdMails == 2
MaxDays == 3

IdTimes == {k * DAY : k \in 1..MaxDays} \cup {k * DAY - 1 : k \in 2..MaxDays}

\* the invite_codes of the configuration: no limit; one use until day 2;
\* expired on day 0; an expiry that is no date, two uses, one of them made
InviteCodes ==
    << [code |-> "open", expires |-> NoExpiry,     max_uses |-> 0, used |-> 0],
       [code |-> "once", expires |-> ExpiresOn(2), max_uses |-> 1, used |-> 0],
       [code |-> "old",  expires |-> ExpiresOn(0), max_uses |-> 0, used |-> 0],
       [code |-> "typo", expires |-> BadExpiry,    max_uses |-> 2, used |-> 1] >>

IdSenders == {Alice, Bob, BobUpper, Stranger, Daemon}

Ordinary == <<"Re", ": meeting">>
Bounce == <<" ", "Undeliverable", ": meeting">>
InviteSubject(code) == <<"[AIMP-INVITE:", code, "]">>

IdSubjects ==
    {Ordinary, Bounce, <<"Hi ", "[Aimp-Invite:", "once", "]">>}
    \cup {InviteSubject(c) : c \in {"open", "once", "old", "typo", "nope"}}

\* an email and what the oracle reads in its body
\* the subjects a member writes under
MemberSubjects == {Ordinary, InviteSubject("open")}

Email(sender, subject, has_proto, oracle) ==
    [sender |-> sender, subject |-> subject, has_proto |-> has_proto, oracle |-> oracle]

IdInit ==
    /\ session = NoSession
    /\ room = NoRoom
    /\ registry = [NoRegistry EXCEPT !.email_to_member = (Alice :> "member"),
                                     !.invite_codes = InviteCodes]
    /\ now = DAY
    /\ notify_mode \in NotifyModes
    /\ outbox = <<>>
    /\ nmsg = 0
    /\ arrived = {}
    /\ pending = <<>>
    /\ calls = NoCalls
    /\ nproc = 0
    /\ nops = 0
    /\ tick = NoTick
    /\ room_sender = None

\* poll: one email of fetch_all_unread_emails
IdOtherEmail ==
    /\ nmsg < MaxIdMails
    /\ \E f \in IdSenders :
       \E subj \in IF identify_sender(registry, f) # None THEN MemberSubjects ELSE IdSubjects :
       \E req \in IF identify_sender(registry, f) # None THEN MemberRequests ELSE {None} :
           LET m == Email(f, subj, FALSE, req)
               r == handle_other_email(registry, session, room, m, req, notify_mode, now)
           IN  /\ r.session # session => session.status = "absent"
               /\ r.room # room => room.status = "absent"
               /\ registry' = r.registry
               /\ session' = r.session
               /\ room' = r.room
               /\ tick' = [NoTick EXCEPT !.all_emails = <<m>>]
    /\ nmsg' = nmsg + 1
    /\ UNCHANGED <<outbox, nproc, nops, now, arrived, pending, calls,
                   notify_mode, room_sender>>

\* AIMPAgent.poll -> handle_email -> AIMPHubAgent._handle_human_email
IdHumanEmail ==
    /\ nmsg < MaxIdMails
    /\ \E f \in IdSenders : \E subj \in {Ordinary, Bounce} : \E reply \in HumanReplies :
           LET m == Email(f, subj, FALSE, reply)
               r == hub_handle_human_email(registry, session, m, reply, notify_mode, now)
           IN  /\ registry' = r.registry
               /\ session' = r.session
               /\ outbox' = outbox \o r.sent
               /\ tick' = [NoTick EXCEPT !.aimp_emails = <<m>>]
    /\ nmsg' = nmsg + 1
    /\ UNCHANGED <<nproc, nops, room, now, arrived, pending, calls,
                   notify_mode, room_sender>>

\* AIMPAgent.poll -> handle_email -> _handle_aimp_email, for the protocol
\* JSON a peer attaches after adopting the session
IdAimpEmail ==
    /\ nmsg < MaxIdMails
    /\ session.status # "absent"
    /\ \E f \in IdSenders : \E dec \in Decisions :
           LET m == Email(f, Ordinary, TRUE, dec)
               r == handle_aimp_email(to_json(PeerReply(session, f)), dec)
           IN  /\ session' = r.s
               /\ outbox' = outbox \o r.sent
               /\ tick' = [NoTick EXCEPT !.aimp_emails = <<m>>]
    /\ nmsg' = nmsg + 1
    /\ UNCHANGED <<nproc, nops, room, now, arrived, pending, calls,
                   notify_mode, room_sender, registry>>

\* time passes between two polls
IdClock ==
    /\ \E time \in IdTimes :
           /\ time > now
           /\ \A u \in IdTimes : u > now => time <= u
           /\ now' = time
    /\ UNCHANGED <<session, outbox, nproc, nops, room, nmsg, arrived, pending, calls,
                   notify_mode, tick, room_sender, registry>>

IdNext ==
    \/ IdOtherEmail
    \/ IdHumanEmail
    \/ IdAimpEmail
    \/ IdClock

SpecIdentity == IdInit /\ [][IdNext]_vars

\* the email a step of SpecIdentity handles: one of the third fetch, or one
\* that names the session
OtherStep == nmsg' = nmsg + 1 /\ tick'.all_emails # <<>>
ReplyStep == nmsg' = nmsg + 1 /\ tick'.aimp_emails # <<>>
Handled == IF tick'.all_emails # <<>> THEN tick'.all_emails[1] ELSE tick'.aimp_emails[1]

\* the step handles an invite request of a sender the hub does not know
InviteStep ==
    /\ OtherStep
    /\ identify_sender(registry, Handled.sender) = None
    /\ ~is_auto_reply(Handled.sender, Handled.subject)
    /\ invite_code_of(Handled.subject) # None

\* the request is accepted: the sender becomes a trusted member and is welcomed
Accepted ==
    /\ DOMAIN registry'.email_to_member =
           DOMAIN registry.email_to_member \cup {lower(Handled.sender)}
    /\ registry'.email_to_member[lower(Handled.sender)] = "trusted"
    /\ Last(registry'.sent).kind = "welcome"

\* the request is rejected: nobody is registered and the sender is told so
Rejected ==
    /\ registry'.email_to_member = registry.email_to_member
    /\ registry'.invite_codes = registry.invite_codes
    /\ Last(registry'.sent).kind = "invite_invalid"

\* a record with that code exists, its expiry date, if it has one, is not
\* before today, and its uses, if limited, are not exhausted
ValidCode(code) ==
    \E i \in DOMAIN registry.invite_codes :
        /\ registry.invite_codes[i].code = code
        /\ registry.invite_codes[i].expires.kind = "date"
               => today(now) <= registry.invite_codes[i].expires.day
        /\ registry.invite_codes[i].max_uses > 0
               => registry.invite_codes[i].used < registry.invite_codes[i].max_uses

\* ------------------------------------------------------------------------
\* C22: an invite request is accepted exactly when a record with its code
\* exists, the record's expiry date (if it has one) is not before today and
\* (if max_uses > 0) used < max_uses; every other request is rejected and
\* registers nobody.
\* ------------------------------------------------------------------------
C22_InviteValidation ==
    [][InviteStep =>
          LET code == invite_code_of(Handled.subject)
          IN  /\ ValidCode(code) => Accepted
              /\ ~ValidCode(code) => Rejected]_vars

\* a code accepted on the day it expires, after an expired code was refused
C22_Witness ==
    /\ Len(registry.sent) = 2
    /\ registry.sent[1].kind = "invite_invalid" /\ registry.sent[1].code = "old"
    /\ registry.sent[2].kind = "welcome" /\ registry.sent[2].code = "once"
    /\ registry.sent[2].at = 2 * DAY

Welcomes(code) ==
    {i \in DOMAIN registry'.sent :
        registry'.sent[i].kind = "welcome" /\ registry'.sent[i].code = code}

\* ------------------------------------------------------------------------
\* C23: a limited code is never used more often than max_uses, and a code
\* with max_uses = 1 is accepted exactly once: the acceptance takes used from
\* 0 to 1, and every request made with it afterwards is rejected.
\* ------------------------------------------------------------------------
C23_AcceptedOnce ==
    [][/\ \A i \in DOMAIN registry'.invite_codes :
              LET ic == registry'.invite_codes[i]
              IN  /\ ic.max_uses > 0 => ic.used <= ic.max_uses
                  /\ ic.max_uses = 1 => Cardinality(Welcomes(ic.code)) = ic.used
       /\ InviteStep =>
              \A i \in DOMAIN registry.invite_codes :
                  LET ic == registry.invite_codes[i]
                  IN  (ic.code = invite_code_of(Handled.subject) /\ ic.max_uses = 1) =>
                          /\ ic.used = 1 => Rejected
                          /\ Accepted => ic.used = 0 /\ registry'.invite_codes[i].used = 1]_vars

\* the one use was made by Bob; the stranger who asks next is refused
C23_Witness ==
    /\ Len(registry.sent) = 2
    /\ registry.sent[1].kind = "welcome" /\ registry.sent[1].code = "once"
    /\ registry.sent[1].to = Bob
    /\ registry.sent[2].kind = "invite_invalid" /\ registry.sent[2].code = "once"
    /\ registry.sent[2].to = Stranger
    /\ registry.invite_codes[2].used = 1

\* ------------------------------------------------------------------------
\* C24: two "how to register" replies to one unidentified sender are at least
\* 24 hours apart, however many messages the sender sends.
\* ------------------------------------------------------------------------
C24_ThrottledReply ==
    \A i, j \in DOMAIN registry.sent :
        (/\ i < j
         /\ registry.sent[i].kind = "how_to_register"
         /\ registry.sent[j].kind = "how_to_register"
         /\ lower(registry.sent[i].to) = lower(registry.sent[j].to))
        => registry.sent[j].at - registry.sent[i].at >= DAY

\* Bob has written twice within a day, the second time with capitals, and
\* has one reply
C24_Witness ==
    /\ nmsg = 2
    /\ now = 2 * DAY - 1
    /\ tick.all_emails # <<>>
    /\ tick.all_emails[1].sender = BobUpper
    /\ tick.all_emails[1].subject = Ordinary
    /\ Len(registry.sent) = 1
    /\ registry.sent[1] = Mail("how_to_register", Bob, None, DAY)

\* ------------------------------------------------------------------------
\* C25: an email of an unidentified sender that matches the auto-reply filter
\* is dropped: no reply is sent and neither the session, the room nor the
\* hub's tables (members, invite counters, throttle) change.
\* ------------------------------------------------------------------------
C25_AutoReplyDropped ==
    [][((OtherStep \/ ReplyStep)
        /\ identify_sender(registry, Handled.sender) = None
        /\ is_auto_reply(Handled.sender, Handled.subject))
       => UNCHANGED <<session, room, registry, outbox>>]_vars

\* ------------------------------------------------------------------------
\* C27: a member command with a non-empty missing list, without a topic, a
\* participant or (for a room) a deadline, or naming a participant that has
\* no address, is answered with a request for the information and creates
\* neither a Session nor a Room.
\* ------------------------------------------------------------------------
Incomplete(req) ==
    \/ req.missing # <<>>
    \/ ~req.topic
    \/ req.participants = <<>>
    \/ req.action = "create_room" /\ ~req.deadline
    \/ unknown_names(req.participants) # <<>>

C27_IncompleteCommand ==
    [][(OtherStep
        /\ identify_sender(registry, Handled.sender) # None
        /\ Incomplete(Handled.oracle))
       => /\ session' = session
          /\ room' = room
          /\ Len(registry'.sent) = Len(registry.sent) + 1
          /\ Last(registry'.sent).to = Handled.sender
          /\ Last(registry'.sent).kind \in {"info_requested", "contact_unknown", "unclear"}]_vars

\* the reply is one without protocol attachment
HumanReplyStep == ReplyStep /\ ~Handled.has_proto

Registered ==
    /\ DOMAIN registry'.email_to_member =
           DOMAIN registry.email_to_member \cup {lower(Handled.sender)}
    /\ registry'.email_to_member[lower(Handled.sender)] = "trusted"

\* ------------------------------------------------------------------------
\* C30: an address on the participant list of the session that is not yet a
\* member and replies to the session is registered as a trusted member
\* before its vote is processed (whatever becomes of the vote); a sender that
\* is not on the list, is a member already or matches the auto-reply filter
\* is not registered.
\* ------------------------------------------------------------------------
C30_AutoRegistration ==
    [][ReplyStep =>
          IF invited_newcomer(registry, session, Handled) THEN Registered
          ELSE registry'.email_to_member = registry.email_to_member]_vars

\* the same for the replies without protocol attachment alone
HumanReplyRegisters ==
    [][HumanReplyStep =>
          IF invited_newcomer(registry, session, Handled) THEN Registered
          ELSE registry'.email_to_member = registry.email_to_member]_vars

\* ------------------------------------------------------------------------
\* SpecFilter: a hub that knows nobody fetches one email, from any of the
\* listed locals or a person, under any of the listed subject prefixes or an
\* ordinary subject, and classifies it.
\* ------------------------------------------------------------------------
FilterSenders ==
    AUTO_REPLY_LOCALS \cup {DaemonUpper, "NoReply", Alerts, Alice, Bob, Stranger}

FilterSubjects ==
    {<<p, ": meeting">> : p \in AUTO_REPLY_SUBJECT_PREFIXES}
    \cup {Bounce, <<"Out Of Office">>, <<"AUTOMATIC REPLY", ": meeting">>,
          Ordinary, <<>>, <<"Re", ": ", "undeliverable">>}

FilterInit ==
    /\ session = NoSession
    /\ room = NoRoom
    /\ registry = NoRegistry
    /\ now = DAY
    /\ notify_mode = "email"
    /\ tick \in {[NoTick EXCEPT !.all_emails = <<Email(f, subj, FALSE, None)>>] :
                    f \in FilterSenders, subj \in FilterSubjects}
    /\ outbox = <<>>
    /\ nmsg = 0
    /\ arrived = {}
    /\ pending = <<>>
    /\ calls = NoCalls
    /\ nproc = 0
    /\ nops = 0
    /\ room_sender = None

\* poll: the email of fetch_all_unread_emails
FilterEmail ==
    /\ nmsg = 0
    /\ LET r == handle_other_email(registry, session, room, tick.all_emails[1], None,
                                   notify_mode, now)
       IN  /\ registry' = r.registry
           /\ session' = r.session
           /\ room' = r.room
    /\ nmsg' = 1
    /\ UNCHANGED <<outbox, nproc, nops, now, arrived, pending, calls,
                   notify_mode, tick, room_sender>>

FilterNext == FilterEmail

SpecFilter == FilterInit /\ [][FilterNext]_vars

\* ------------------------------------------------------------------------
\* C26: the auto-reply filter answers true for every sender whose local part
\* is one of the listed local parts and for every subject that begins with a
\* listed prefix (the email is dropped), and false for a person writing under
\* an ordinary subject (who gets the reply for unknown senders).
\* ------------------------------------------------------------------------
C26_AutoReplyFilter ==
    nmsg = 1 =>
        LET m == tick.all_emails[1]
        IN  /\ (m.sender \in AUTO_REPLY_LOCALS
                \/ (m.subject # <<>> /\ m.subject[1] \in AUTO_REPLY_SUBJECT_PREFIXES))
               => is_auto_reply(m.sender, m.subject) /\ registry.sent = <<>>
            /\ (m.sender \in {Alice, Bob, Stranger} /\ m.subject = Ordinary)
               => ~is_auto_reply(m.sender, m.subject) /\ registry.sent # <<>>

\* a person's email under a listed prefix was dropped
C26_Witness ==
    /\ nmsg = 1
    /\ tick.all_emails[1].sender = Alice
    /\ tick.all_emails[1].subject = <<"out of office", ": meeting">>
    /\ registry.sent = <<>>

\* ------------------------------------------------------------------------
\* Further properties of SpecProtocol
\* ------------------------------------------------------------------------
\* C31: every reply that round processing sends for a negotiating session
\* (confirm, escalation or counter) goes out under a version one above the
\* session's previous version and above that of the reply sent before it, and
\* a history entry appended by the step carries that bumped version.
C31_VersionBumpedOnEveryReply ==
    [][(nproc' = nproc + 1 /\ session.status = "negotiating") =>
          /\ Len(outbox') = Len(outbox) + 1
          /\ session'.version = session.version + 1
          /\ Last(outbox').version = session'.version
          /\ outbox # <<>> => Last(outbox').version > Last(outbox).version
          /\ Len(session'.history) > Len(session.history) =>
                 Last(session'.history).version = session'.version]_vars

\* ------------------------------------------------------------------------
\* SpecFold: the round-gated handling of the messages of one session, with
\* attachments that record votes of other participants, free-text replies
\* the LLM fails on, and sends that fail.  A fetched message is inserted into
\* pending_emails and its sender recorded as a respondent; when the round is
\* complete the unprocessed rows are handed to _process_session_round and
\* then marked processed.
\* ------------------------------------------------------------------------
\* the number of inbound messages a run of SpecFold handles
MaxFoldMsgs == 3

\* the messages one sender can send: an attachment voting o1 on both items, an
\* attachment that lists a second time and records the hub's vote beside the
\* sender's, a free-text vote for a time that may not be listed, and a
\* free-text reply the LLM fails on
FoldMsgsFrom(f) == {Msg(f, TRUE, "agree"), Msg(f, TRUE, "time2"),
                    Msg(f, FALSE, "time2"), Msg(f, FALSE, "llm_error")}

FoldSessions == {initiate_internal_meeting(<<Alice>>),
                 initiate_internal_meeting(<<Alice, Bob>>),
                 initiate_meeting(<<Alice, Bob>>, <<"o1">>, <<"o1">>)}

\* _process_session_round, as the store sees it: store.save(session) is the
\* last statement, behind _send_session_reply, so a send that raises leaves
\* the stored session as it was
process_session_round_stored(s, rows, send_ok) ==
    IF send_ok THEN process_session_round(s, rows).s ELSE s

FoldInit ==
    /\ session \in FoldSessions
    /\ room = NoRoom
    /\ outbox = <<>>
    /\ now = 0
    /\ nmsg = 0
    /\ arrived = {}
    /\ pending = <<>>
    /\ calls = NoCalls
    /\ nproc = 0
    /\ nops = 0
    /\ notify_mode \in NotifyModes
    /\ tick = NoTick
    /\ room_sender = None
    /\ registry = NoRegistry

\* one session message; tick.phase tells how its handling ended
FoldSessionEmail ==
    /\ nmsg < MaxFoldMsgs
    /\ \E f \in {Alice, Bob} : \E m \in FoldMsgsFrom(f) : \E send_ok \in BOOLEAN :
           LET tbl == save_pending_email(pending, "session", f, m.has_proto,
                                         m.proposals, m.body, now)
               s1  == record_round_reply(session, f)
               rows == load_pending_for_session(tbl)
               r   == process_session_round(s1, rows)
           IN  /\ arrived' = arrived \cup {f}
               /\ IF ~is_round_complete(s1)
                  THEN /\ session' = s1
                       /\ pending' = tbl
                       /\ tick' = [NoTick EXCEPT !.phase = "waiting"]
                       /\ UNCHANGED <<outbox, calls, nproc>>
                  ELSE IF send_ok
                  THEN /\ session' = process_session_round_stored(s1, rows, TRUE)
                       /\ outbox' = Append(outbox, r.sent)
                       /\ pending' = mark_each(tbl, rows)
                       /\ calls' = Logged(rows)
                       /\ nproc' = nproc + 1
                       /\ tick' = [NoTick EXCEPT !.phase = "processed"]
                  ELSE /\ session' = process_session_round_stored(s1, rows, FALSE)
                       /\ pending' = tbl
                       /\ tick' = [NoTick EXCEPT !.phase = "send_failed"]
                       /\ UNCHANGED <<outbox, calls, nproc>>
    /\ nmsg' = nmsg + 1
    /\ UNCHANGED <<room, now, nops, notify_mode, room_sender, registry>>

FoldNext == FoldSessionEmail

SpecFold == FoldInit /\ [][FoldNext]_vars

\* the rows a step of SpecFold handed to _process_session_round
FoldedRows ==
    SelectSeq(pending', LAMBDA row :
        row.processed /\ (row.id > Len(pending) \/ ~pending[row.id].processed))

FoldStep == tick'.phase = "processed" /\ nmsg' = nmsg + 1

C33_UnlistedChoiceAdded ==
    [][(HumanReplyStep /\ session.status = "negotiating") =>
          \A k \in DOMAIN Handled.oracle.votes :
              LET item   == Handled.oracle.votes[k][1]
                  choice == Handled.oracle.votes[k][2]
              IN  (item \in DOMAIN session.proposals
                   /\ choice \notin Range(session.proposals[item].options))
                  => /\ choice \in Range(session'.proposals[item].options)
                     /\ session'.proposals[item].votes[Handled.sender] = choice]_vars

\* the rows a step of SpecFold found unprocessed: those that waited and the
\* one that came in
HandedRows ==
    SelectSeq(pending', LAMBDA row : row.id > Len(pending) \/ ~pending[row.id].processed)

\* the LLM failed on the body of the row
OracleFailed(row) == ~row.has_proto /\ row.body.raised

Inserted ==
    IF \E i \in DOMAIN pending : ~pending[i].processed /\ pending'[i].processed
    THEN CHOOSE i \in DOMAIN pending : ~pending[i].processed /\ pending'[i].processed
    ELSE 0

\* C35: apply_vote with a choice that is not among the options of the item
\* raises the error of an unknown option (ValueError) and records nothing: the
\* options of every item, every vote recorded before the call and the voter's
\* own vote on the item are as before (a voter who had no slot has an unvoted
\* one).
C35_RefusedVoteChangesNothing ==
    [][Inserted # 0 =>
          LET voter  == pending[Inserted].from_addr
              item   == pending[Inserted].body[1][1]
              choice == pending[Inserted].body[1][2]
          IN  choice \notin Range(session.proposals[item].options) =>
                  /\ apply_vote(session, voter, item, choice).err = "ValueError"
                  /\ \A i \in DOMAIN session.proposals :
                         /\ session'.proposals[i].options = session.proposals[i].options
                         /\ \A p \in DOMAIN session.proposals[i].votes :
                                session'.proposals[i].votes[p] = session.proposals[i].votes[p]
                  /\ session'.proposals[item].votes[voter] =
                         IF voter \in DOMAIN session.proposals[item].votes
                         THEN session.proposals[item].votes[voter] ELSE None]_vars

\* Alice's vote for the second time was recorded and her vote for a location
\* that is not listed was refused afterwards: the first is kept, the second
\* not recorded, the options as the hub listed them
C35_Witness ==
    /\ Len(pending) = 2
    /\ \A k \in DOMAIN pending : pending[k].processed /\ pending[k].from_addr = Alice
    /\ pending[1].body = << <<"time", "o2">> >>
    /\ pending[2].body = << <<"location", "o2">> >>
    /\ session.proposals["time"].votes[Alice] = "o2"
    /\ session.proposals["location"].votes[Alice] = None
    /\ session.proposals["location"].options = <<"o1">>

\* ------------------------------------------------------------------------
\* C36: when the round of a session is complete and the send of the reply
\* that round processing has built fails, the stored session is nevertheless
\* the one round processing arrived at: the round advanced, with the status,
\* version and history of the outcome.
\* ------------------------------------------------------------------------
C36_SendFailureStillSaves ==
    [][(nmsg' = nmsg + 1 /\ tick'.phase = "send_failed") =>
          LET s1 == record_round_reply(session, Last(pending').from_addr)
              r  == process_session_round(s1, load_pending_for_session(pending'))
          IN  /\ session'.current_round = session.current_round + 1
              /\ session' = r.s]_vars

\* ------------------------------------------------------------------------
\* Further properties of SpecTick
\* ------------------------------------------------------------------------
\* the room and session emails of the poll whose handling was aborted by an
\* exception (of the store, for one)
Aborted ==
    {<<"room", i>> : i \in {j \in DOMAIN tick.room_emails : tick.room_emails[j].raises}}
    \cup {<<"aimp", i>> : i \in {j \in DOMAIN tick.aimp_emails : tick.aimp_emails[j].raises}}

UnprocessedRows == {k \in DOMAIN pending : ~pending[k].processed}

\* C37: when a poll has returned, every room or session message whose
\* processing was aborted by a failing store operation has its row in
\* pending_emails, unprocessed, for the next poll to pick up.
C37_AbortedMessageKeepsRow ==
    tick.phase = "done" => Cardinality(UnprocessedRows) >= Cardinality(Aborted)

\* ------------------------------------------------------------------------
\* Further properties of SpecGate
\* ------------------------------------------------------------------------
\* every participant of the session other than the hub has replied in the
\* round under way
AllHumansReplied(s) ==
    /\ Range(s.participants) \ {Hub} # {}
    /\ \A p \in Range(s.participants) \ {Hub} : p \in Range(s.round_respondents)

\* C38: a negotiating session that the hub initiated does not wait on in a
\* round in which every human participant has replied: the reply of the last
\* of them completes the round, so that the rounds go on until the session is
\* confirmed or escalated.
C38_RoundCompletesOnHumanReplies ==
    (session.status = "negotiating" /\ session.initiator = Hub)
        => ~AllHumansReplied(session)

\* ------------------------------------------------------------------------
\* Finalization of a room, counted
\* ------------------------------------------------------------------------
FinalizedEntries ==
    IF room = NoRoom THEN {}
    ELSE {i \in DOMAIN room.transcript : room.transcript[i].action = "FINALIZED"}

MinutesTo(p) == {i \in DOMAIN outbox : outbox[i].kind = "minutes" /\ outbox[i].to = {p}}

C40_AcceptedByParticipantsOnce ==
    room # NoRoom =>
        /\ \A i \in DOMAIN room.accepted_by :
               room.accepted_by[i] \in Range(room.participants)
        /\ \A i, j \in DOMAIN room.accepted_by :
               room.accepted_by[i] = room.accepted_by[j] => i = j

====
